---- MODULE Spec2Model ----
(***************************************************************************)
(* Model of the FOREX-Backtest support bot (src/bot.py): the verification  *)
(* finite-state machine of SupportBot (process_verification_step,          *)
(* handle_vip_callback, handle_photo), the ticket helpers                  *)
(* create_company_ticket and process_ticket_input, the notification of the *)
(* connected support groups, and the stores they act on.                   *)
(*                                                                         *)
(* Handlers are atomic actions: main_async_logic builds the Application    *)
(* with Application.builder().token(...).build(), i.e. without             *)
(* concurrent_updates, so the framework runs one handler to completion     *)
(* before it takes the next update.                                        *)
(*                                                                         *)
(* Texts are TLA+ strings; the Python string and regex operations the      *)
(* handlers use are computed character by character.  Amounts are held in  *)
(* cents: the inputs carry at most two fractional digits, for which        *)
(* float() and the .2f format are exact.  Time is whole seconds since the  *)
(* Unix epoch (UTC).                                                        *)
(***************************************************************************)
EXTENDS Integers, Sequences, FiniteSets, TLC

VARIABLES pending_verifications, pending_tickets, tickets, groups, now, last_update,
          error, replies, sends, in_flight

vars == <<pending_verifications, pending_tickets, tickets, groups, now, last_update,
          error, replies, sends, in_flight>>

----------------------------------------------------------------------------
(* Python str operations                                                   *)

Ch(s, i) == SubSeq(s, i, i)

LowerCase == "abcdefghijklmnopqrstuvwxyz"
UpperCase == "ABCDEFGHIJKLMNOPQRSTUVWXYZ"
DigitChars == {"0", "1", "2", "3", "4", "5", "6", "7", "8", "9"}
WhiteSpace == {" ", "\t", "\n"}

IsDigit(c) == c \in DigitChars

ToUpper ==
    [c \in {Ch(LowerCase, i) : i \in 1..Len(LowerCase)} |->
        Ch(UpperCase, CHOOSE i \in 1..Len(LowerCase) : Ch(LowerCase, i) = c)]

ToLower ==
    [c \in {Ch(UpperCase, i) : i \in 1..Len(UpperCase)} |->
        Ch(LowerCase, CHOOSE i \in 1..Len(UpperCase) : Ch(UpperCase, i) = c)]

upper_char(c) == IF c \in DOMAIN ToUpper THEN ToUpper[c] ELSE c

lower_char(c) == IF c \in DOMAIN ToLower THEN ToLower[c] ELSE c

RECURSIVE upper(_)
upper(s) == IF Len(s) = 0 THEN "" ELSE upper_char(Ch(s, 1)) \o upper(SubSeq(s, 2, Len(s)))

RECURSIVE lower(_)
lower(s) == IF Len(s) = 0 THEN "" ELSE lower_char(Ch(s, 1)) \o lower(SubSeq(s, 2, Len(s)))

RECURSIVE lstrip(_)
lstrip(s) ==
    IF Len(s) > 0 /\ Ch(s, 1) \in WhiteSpace THEN lstrip(SubSeq(s, 2, Len(s))) ELSE s

RECURSIVE rstrip(_)
rstrip(s) ==
    IF Len(s) > 0 /\ Ch(s, Len(s)) \in WhiteSpace THEN rstrip(SubSeq(s, 1, Len(s) - 1)) ELSE s

strip(s) == rstrip(lstrip(s))

AllDigits(s) == \A i \in 1..Len(s) : IsDigit(Ch(s, i))

DigitValues == [c \in DigitChars |-> CHOOSE v \in 0..9 : Ch("0123456789", v + 1) = c]

DigitValue(c) == DigitValues[c]

RECURSIVE int(_)
int(s) == IF Len(s) = 0 THEN 0 ELSE 10 * int(SubSeq(s, 1, Len(s) - 1)) + DigitValue(Ch(s, Len(s)))

RECURSIVE str(_)
str(n) == IF n < 10 THEN Ch("0123456789", n + 1) ELSE str(n \div 10) \o Ch("0123456789", (n % 10) + 1)

RECURSIVE zfill(_, _)
zfill(s, width) == IF Len(s) >= width THEN s ELSE zfill("0" \o s, width)

Contains(s, sub) ==
    \E i \in 1..(Len(s) - Len(sub) + 1) : SubSeq(s, i, i + Len(sub) - 1) = sub

----------------------------------------------------------------------------
(* re.fullmatch(r"CR\d{5,8}", s)                                           *)

MinCrDigits == 5
MaxCrDigits == 8

fullmatch_CR(s) ==
    /\ Len(s) >= 2 + MinCrDigits
    /\ Len(s) <= 2 + MaxCrDigits
    /\ SubSeq(s, 1, 2) = "CR"
    /\ AllDigits(SubSeq(s, 3, Len(s)))

(* re.search(r"\d+(?:\.\d+)?", s): the leftmost match, each part greedy;   *)
(* "" stands for None (a match holds at least one digit).                  *)

RECURSIVE DigitRun(_, _)
DigitRun(s, i) == IF i <= Len(s) /\ IsDigit(Ch(s, i)) THEN 1 + DigitRun(s, i + 1) ELSE 0

search_number(s) ==
    IF \E i \in 1..Len(s) : IsDigit(Ch(s, i))
    THEN LET first == CHOOSE i \in 1..Len(s) :
                          /\ IsDigit(Ch(s, i))
                          /\ \A j \in 1..(i - 1) : ~IsDigit(Ch(s, j))
             n     == DigitRun(s, first)
             dot   == first + n
             f     == IF dot <= Len(s) /\ Ch(s, dot) = "." THEN DigitRun(s, dot + 1) ELSE 0
         IN  IF f > 0 THEN SubSeq(s, first, dot + f) ELSE SubSeq(s, first, dot - 1)
    ELSE ""

(* float(m) of a match of the pattern above, in cents.                     *)

FracDigits == 2

CentsPerUnit == 10 ^ FracDigits

float(m) ==
    LET dot == IF \E i \in 1..Len(m) : Ch(m, i) = "."
               THEN CHOOSE i \in 1..Len(m) : Ch(m, i) = "."
               ELSE Len(m) + 1
        whole == SubSeq(m, 1, dot - 1)
        frac  == SubSeq(m, dot + 1, Len(m))
        frac2 == SubSeq(frac \o "00", 1, FracDigits)
    IN  int(whole) * CentsPerUnit + int(frac2)

(* f"{amount:.2f}"                                                         *)

format_2f(cents) ==
    str(cents \div CentsPerUnit) \o "." \o zfill(str(cents % CentsPerUnit), FracDigits)

----------------------------------------------------------------------------
(* datetime: the proleptic Gregorian calendar, as days since 1970-01-01    *)

SecondsPerDay == 86400

IsLeap(y) == (y % 4 = 0 /\ y % 100 # 0) \/ y % 400 = 0

DaysInMonth(y, m) ==
    IF m = 2 THEN (IF IsLeap(y) THEN 29 ELSE 28)
    ELSE IF m \in {4, 6, 9, 11} THEN 30 ELSE 31

DaysFromCivil(y, m, d) ==
    LET yy  == IF m <= 2 THEN y - 1 ELSE y
        era == yy \div 400
        yoe == yy - era * 400
        mp  == IF m > 2 THEN m - 3 ELSE m + 9
        doy == (153 * mp + 2) \div 5 + d - 1
        doe == yoe * 365 + yoe \div 4 - yoe \div 100 + doy
    IN  era * 146097 + doe - 719468

CivilFromDays(z) ==
    LET zz  == z + 719468
        era == zz \div 146097
        doe == zz - era * 146097
        yoe == (doe - doe \div 1460 + doe \div 36524 - doe \div 146096) \div 365
        doy == doe - (365 * yoe + yoe \div 4 - yoe \div 100)
        mp  == (5 * doy + 2) \div 153
        d   == doy - (153 * mp + 2) \div 5 + 1
        m   == IF mp < 10 THEN mp + 3 ELSE mp - 9
        y   == yoe + era * 400 + (IF m <= 2 THEN 1 ELSE 0)
    IN  [year |-> y, month |-> m, day |-> d]

(* datetime.strptime(s, "%Y-%m-%d"): four digits, one or two, one or two;  *)
(* ValueError (ok = FALSE) on any other shape or on a date that does not   *)
(* exist.                                                                  *)

strptime(s) ==
    LET dashes == {i \in 1..Len(s) : Ch(s, i) = "-"}
        d1 == CHOOSE i \in dashes : \A j \in dashes : i <= j
        d2 == CHOOSE i \in dashes : \A j \in dashes : j <= i
        ys == SubSeq(s, 1, d1 - 1)
        ms == SubSeq(s, d1 + 1, d2 - 1)
        ds == SubSeq(s, d2 + 1, Len(s))
        shape == /\ Cardinality(dashes) = 2
                 /\ Len(ys) = 4 /\ AllDigits(ys)
                 /\ Len(ms) \in {1, 2} /\ AllDigits(ms)
                 /\ Len(ds) \in {1, 2} /\ AllDigits(ds)
    IN  IF /\ shape
           /\ int(ys) >= 1
           /\ int(ms) \in 1..12
           /\ int(ds) >= 1
           /\ int(ds) <= DaysInMonth(int(ys), int(ms))
        THEN [ok |-> TRUE, year |-> int(ys), month |-> int(ms), day |-> int(ds)]
        ELSE [ok |-> FALSE, year |-> 0, month |-> 0, day |-> 0]

(* datetime.timestamp of a naive midnight, and datetime.isoformat()        *)

timestamp(dt) == DaysFromCivil(dt.year, dt.month, dt.day) * SecondsPerDay

isoformat(dt) ==
    zfill(str(dt.year), 4) \o "-" \o zfill(str(dt.month), 2) \o "-"
        \o zfill(str(dt.day), 2) \o "T00:00:00"

(* datetime.utcnow().strftime('%Y%m%d')                                    *)

strftime_Ymd(t) ==
    LET c == CivilFromDays(t \div SecondsPerDay)
    IN  zfill(str(c.year), 4) \o zfill(str(c.month), 2) \o zfill(str(c.day), 2)

----------------------------------------------------------------------------
(* Class attributes and literals of SupportBot                             *)

VIP_CR_WHITELIST == {
    "CR3648598", "CR3654244", "CR3654335", "CR3762108", "CR3845409", "CR3925151",
    "CR4085158", "CR4090372", "CR4138661", "CR4210749", "CR4296364", "CR4373296",
    "CR4488218", "CR4583558", "CR4655132", "CR4965219", "CR4985194", "CR5053549",
    "CR5076079", "CR5085020", "CR5107260", "CR5107344", "CR5108974", "CR5115383",
    "CR5121522", "CR5124042", "CR5127519", "CR5128799", "CR5128821", "CR5128906",
    "CR5131270", "CR5131273", "CR5140283", "CR5140335", "CR5140339", "CR5140709",
    "CR5141478", "CR5145112", "CR5145144", "CR5146592", "CR5146651", "CR5149678",
    "CR5150548", "CR5150792", "CR5151132", "CR5152411", "CR5156334", "CR5168586",
    "CR5168665", "CR5171621", "CR5171935", "CR5172416", "CR5174518", "CR5175283",
    "CR5175357", "CR5175623", "CR5176885", "CR5178412", "CR5182098", "CR5183689",
    "CR5191512", "CR5191516", "CR5192564", "CR5192768", "CR5195948", "CR5195953",
    "CR5195954", "CR5196405", "CR5201751", "CR5201863", "CR5208742", "CR5208818",
    "CR5209139", "CR5211727", "CR5217038", "CR5217041", "CR5217294", "CR5217716",
    "CR5217806", "CR5217841", "CR5218145", "CR5218709", "CR5220504", "CR5221257",
    "CR5222812", "CR5224492", "CR5230088", "CR5232901", "CR5234722", "CR5242731",
    "CR5247338", "CR5250590", "CR5253563", "CR5253566", "CR5253922", "CR5268275",
    "CR5273673", "CR5273869", "CR5276090", "CR5276310", "CR5281994", "CR5283490",
    "CR5283554", "CR5283705", "CR5283721", "CR5291732", "CR5298913", "CR5299111",
    "CR5299430", "CR5303230", "CR5304118", "CR5304735", "CR5305240", "CR5305810",
    "CR5310002", "CR5317151", "CR5321069", "CR5324653", "CR5325581", "CR5327120",
    "CR5328157", "CR5337678", "CR5337712", "CR5337783", "CR5337784", "CR5337791",
    "CR5337793", "CR5376438", "CR5383018", "CR5404655", "CR5421490", "CR5431311",
    "CR5442253", "CR5442355", "CR5442531", "CR5442605", "CR5444280", "CR5445094",
    "CR5446889", "CR5455669", "CR5466632", "CR5466762", "CR5471054", "CR5477031",
    "CR5485897", "CR5487026", "CR5487767", "CR5487928", "CR5488506", "CR5491460",
    "CR5499637", "CR5500382", "CR5529877", "CR5535613", "CR5544922", "CR5551288",
    "CR5552176", "CR5556284", "CR5556287", "CR5559722", "CR5561483", "CR5563616",
    "CR5576367", "CR5577880", "CR5583683", "CR5585327", "CR5589802", "CR5592846",
    "CR5594968", "CR5595416", "CR5597602", "CR5605478", "CR5607701", "CR5616548",
    "CR5616657", "CR5617024", "CR5618746", "CR5634872", "CR5638055", "CR5658165",
    "CR5662243", "CR5681280", "CR5686151", "CR5693620", "CR5694136", "CR5729218",
    "CR5729228", "CR5729255", "CR5734377", "CR5734685", "CR5734864", "CR5747075",
    "CR5751222", "CR5755906", "CR5784782", "CR5786213", "CR5786969", "CR5799865",
    "CR5799868", "CR5799916", "CR5822964", "CR5836935", "CR5836938", "CR5839647",
    "CR5839797", "CR5845914", "CR5851342", "CR5851788", "CR5859465", "CR5864046",
    "CR5873762", "CR5881030", "CR5882107", "CR5886556", "CR5890102", "CR5924066",
    "CR5930200", "CR5970531", "CR6007156", "CR6012579", "CR6012919", "CR6022355",
    "CR6024318", "CR6037913", "CR6043787", "CR6077426", "CR6086720", "CR6094490",
    "CR6102922", "CR6128596", "CR6135793", "CR6141138", "CR6141427", "CR6141685",
    "CR6142172", "CR6142245", "CR6143176", "CR6146767", "CR6146888", "CR6154878",
    "CR6156707", "CR6158587", "CR6167387", "CR6172824", "CR6174976", "CR6181075",
    "CR6181076", "CR6182660", "CR6194673", "CR6198415", "CR6200366", "CR6209246",
    "CR6268178", "CR6283228", "CR6295186", "CR6299453", "CR6300261", "CR6301714",
    "CR6303536", "CR6313536", "CR6316942", "CR6316943", "CR6316945", "CR6321295",
    "CR6330598", "CR6341042", "CR6352212", "CR6379985", "CR6384361", "CR6399552",
    "CR6399574", "CR6401733", "CR6403902", "CR6408968", "CR6413389", "CR6423099",
    "CR6423523", "CR6439217", "CR6462778", "CR6474692", "CR6487699", "CR6505876",
    "CR6514641", "CR6520436", "CR6520451", "CR6523858", "CR6524558", "CR6528520",
    "CR6532131", "CR6532137", "CR6532275", "CR6610101", "CR6620010", "CR6653814",
    "CR6667537", "CR6669363", "CR6669366", "CR6675564", "CR6676337", "CR6676341",
    "CR6682471", "CR6691842", "CR6691852", "CR6706694", "CR6710741", "CR6756501",
    "CR6756521", "CR6762445", "CR6771489", "CR6772496", "CR6799617", "CR6800730",
    "CR6828268", "CR6973584", "CR6978912", "CR6983840", "CR6984178", "CR6994219",
    "CR7016028", "CR7044018", "CR7052204", "CR7112762", "CR7114951", "CR7124896",
    "CR7237163", "CR7283876", "CR7283878", "CR7310563", "CR7380411", "CR7381612",
    "CR7383923", "CR7383924", "CR7383926", "CR7443452", "CR7462159", "CR7496923",
    "CR7514165", "CR7619347", "CR7625010", "CR7655242", "CR7707424", "CR7708242",
    "CR7792475", "CR7814776", "CR7816651", "CR7817244", "CR7818330", "CR8010847",
    "CR8036589", "CR8047034", "CR8052255", "CR8581785", "CR8644473", "CR8648274",
    "CR8661054"
}

REQUIRED_DERIV_DEPOSIT == 50

MENTORSHIP_DEPOSIT == 50

TICKET_ID_MODULUS == 100000

TICKET_ID_WIDTH == 5

----------------------------------------------------------------------------
(* Bounds and inputs of the model                                          *)

Users == {101, 102}

(* 2024-03-01 23:59:59 UTC: one tick crosses midnight, so that a creation  *)
(* date of 2024-03-01 is less than a day old before the tick and exactly   *)
(* one day old after it.                                                   *)
StartTime == timestamp(strptime("2024-03-02")) - 1

MaxTicks == 1

MaxTickets == 1

YesNoTexts == {"Yes", " y ", "NO", "n", "maybe"}

DateTexts == {"2024-03-01", "2024-03-02", "2024-02-30"}

CodeTexts == {"CR5499637", " cr5499637 ", "CR12345", "cr12345", "CR12"}

AmountTexts == {"50.00", "49.99"}

Texts == YesNoTexts \cup DateTexts \cup CodeTexts \cup AmountTexts \cup {"Done"}

MentorshipTexts == {"Done", "CR5499637", " cr12345 ", "CR12", "50.00", "49.99", "maybe"}

Captions == {"my balance", "49.99", "deposit 60"}

(* 2024-02-29 is more than a day old at StartTime, 2024-03-01 is not.       *)
FlowTexts ==
    {"Yes", "NO", "2024-02-29", "2024-03-01", "CR5499637", "CR12345", "CR12",
     "50.00", "49.99", "Done"}

(* An update as the handlers read it: effective_user.id, the message text  *)
(* or photo caption (has_text is FALSE for a photo without caption) or the *)
(* callback data, and the chat the message came from.                      *)
(* unreachable: the chats to which bot.send_message raises while the       *)
(* update is handled.                                                      *)
Update(kind, u, has_text, text) ==
    [kind |-> kind, user |-> u, has_text |-> has_text, text |-> text,
     chat_type |-> "private", addressed |-> FALSE, unreachable |-> {}]

(* A command sent in a chat by a user; member_status is the status that    *)
(* get_chat_member returns for the user in that chat.                      *)
Command(command, chat_type, chat_id, u, member_status) ==
    [kind |-> "command", user |-> u, has_text |-> TRUE, text |-> command,
     chat_type |-> chat_type, chat_id |-> chat_id, member_status |-> member_status]

(* User 101 walks the flows; user 102 only files Currencies VIP requests,   *)
(* which take ticket ids of the same clock second.                         *)
TextUpdates(texts) == {Update("text", 101, TRUE, s) : s \in texts}

PhotoUpdates ==
    {Update("photo", 101, TRUE, s) : s \in Captions} \cup {Update("photo", 101, FALSE, "")}

CallbackUpdates(flow_entry) ==
    {Update("callback", u, TRUE, "vip_currencies") : u \in Users}
        \cup {Update("callback", 101, TRUE, flow_entry)}

(* callback data of the buttons that enter a flow or choose a category of  *)
(* the generic ticket form                                                 *)
FlowCallbacks ==
    {Update("callback", 101, TRUE, data) :
        data \in {"vip_deriv", "vip_mentorship", "category_mentorship"}}

(* Two users at once: the entries of both flows and a few answers          *)
UserTexts == {"Yes", "2024-02-29", "CR5499637", "50.00", "Done"}

UserTextUpdates == {Update("text", u, TRUE, s) : u \in Users, s \in UserTexts}

UserPhotoUpdates == {Update("photo", u, TRUE, "deposit 60") : u \in Users}

UserCallbacks ==
    {Update("callback", u, TRUE, d) : u \in Users, d \in {"vip_deriv", "vip_mentorship"}}

GroupIds == {-1001, -1002}

(* The text of a ticket description, sent while every group is reachable   *)
(* and while one of the groups is not.                                     *)
GroupTextUpdates ==
    {[Update("text", 101, TRUE, "my issue") EXCEPT !.unreachable = chats] :
        chats \in {{}} \cup {{g} : g \in GroupIds}}

GroupCallbacks ==
    {Update("callback", u, TRUE, "vip_currencies") : u \in Users}
        \cup {Update("callback", 101, TRUE, "category_mentorship")}

ConnectCommands ==
    {Command("/connect", "supergroup", g, 102, "administrator") : g \in GroupIds}
        \cup {Command("/connect", "supergroup", -1001, 101, "member"),
              Command("/connect", "private", 102, 102, "administrator")}

DisconnectCommands ==
    {Command("/disconnect", "supergroup", -1001, 102, "administrator"),
     Command("/disconnect", "supergroup", -1001, 101, "member")}

----------------------------------------------------------------------------
(* dict helpers                                                            *)

EmptyDict == [k \in {} |-> ""]

Put(d, k, v) == [x \in (DOMAIN d) \cup {k} |-> IF x = k THEN v ELSE d[x]]

Del(d, k) == [x \in (DOMAIN d) \ {k} |-> d[x]]

----------------------------------------------------------------------------
(* The outcome of one handler run: the stores it leaves, the replies it    *)
(* sent to the user, and the exception that ended it ("" when it returned) *)

Outcome(pv, pt, tk, rs, err) ==
    [pending_verifications |-> pv, pending_tickets |-> pt, tickets |-> tk,
     groups |-> groups, replies |-> rs, error |-> err, sends |-> <<>>]

Replied(rs) == Outcome(pending_verifications, pending_tickets, tickets, rs, "")

Raised(rs, err) == Outcome(pending_verifications, pending_tickets, tickets, rs, err)

SessionRemoved(u, rs) ==
    Outcome(Del(pending_verifications, u), pending_tickets, tickets, rs, "")

SessionMoved_to_deriv(u, step, data, rs) ==
    Outcome([pending_verifications EXCEPT ![u] = [flow |-> "deriv_vip", step |-> step, data |-> data]],
            pending_tickets, tickets, rs, "")

SessionMoved(u, step, data, rs) ==
    Outcome([pending_verifications EXCEPT ![u] =
                 [flow |-> @.flow, step |-> step, data |-> data]],
            pending_tickets, tickets, rs, "")

----------------------------------------------------------------------------
(* create_company_ticket                                                   *)

ticket_id(t) ==
    "TKT-" \o strftime_Ymd(t) \o "-"
        \o zfill(str(t % TICKET_ID_MODULUS), TICKET_ID_WIDTH)

company_ticket_doc(u, category, description) ==
    [ticket_id |-> ticket_id(now), user_id |-> u, category |-> category,
     description |-> description, status |-> "open", priority |-> "high",
     created_at |-> now]

DuplicateKey_never(doc) == FALSE

(* db.tickets.insert_one under the unique index on ticket_id               *)
DuplicateKey(doc) == \E t \in tickets : t.ticket_id = doc.ticket_id

create_company_ticket_keeps_session(o, u, category, description, reply_after, remove_session) ==
    LET doc == company_ticket_doc(u, category, description)
    IN  IF DuplicateKey(doc)
        THEN [o EXCEPT !.error = "DuplicateKeyError"]
        ELSE [o EXCEPT !.tickets = @ \cup {doc},
                       !.replies = @ \o <<reply_after>>]

create_company_ticket_drops_session(o, u, category, description, reply_after, remove_session) ==
    LET doc == company_ticket_doc(u, category, description)
    IN  IF DuplicateKey(doc)
        THEN [o EXCEPT !.error = "DuplicateKeyError",
                       !.pending_verifications = Del(@, u)]
        ELSE [o EXCEPT !.tickets = @ \cup {doc},
                       !.replies = @ \o <<reply_after>>,
                       !.pending_verifications =
                           IF remove_session THEN Del(@, u) ELSE @]

(* db.groups.find({"status": "active"})                                    *)
get_support_groups == {g \in groups : g.status = "active"}

RECURSIVE send_to_groups_stops_at_failure(_, _, _)
send_to_groups_stops_at_failure(gs, ticket_doc, unreachable) ==
    IF gs = {} THEN <<>>
    ELSE LET g == CHOOSE x \in gs : \A y \in gs : x.group_id <= y.group_id
         IN  IF g.group_id \in unreachable
             THEN <<[chat_id |-> g.group_id, ticket_id |-> ticket_doc.ticket_id,
                     delivered |-> FALSE]>>
             ELSE <<[chat_id |-> g.group_id, ticket_id |-> ticket_doc.ticket_id,
                     delivered |-> TRUE]>>
                      \o send_to_groups_stops_at_failure(gs \ {g}, ticket_doc,
                                                         unreachable)

(* The send_message calls of the loop over the groups, one per group       *)
(* record, in ascending group_id; a call that raises is caught and logged. *)
RECURSIVE send_to_groups(_, _, _)
send_to_groups(gs, ticket_doc, unreachable) ==
    IF gs = {} THEN <<>>
    ELSE LET g == CHOOSE x \in gs : \A y \in gs : x.group_id <= y.group_id
         IN  <<[chat_id |-> g.group_id, ticket_id |-> ticket_doc.ticket_id,
                delivered |-> g.group_id \notin unreachable]>>
                 \o send_to_groups(gs \ {g}, ticket_doc, unreachable)

(* bot = context.bot if context else None; without a bot the function      *)
(* returns before any send.                                                *)
forward_to_support_groups(o, has_context, ticket_doc, unreachable) ==
    IF ~has_context THEN o
    ELSE [o EXCEPT !.sends = @ \o send_to_groups(get_support_groups, ticket_doc,
                                                 unreachable)]

(* create_company_ticket calls forward_to_support_groups(None, ticket_doc) *)
create_company_ticket(o, u, category, description, reply_after, remove_session) ==
    LET doc == company_ticket_doc(u, category, description)
    IN  IF DuplicateKey(doc)
        THEN [o EXCEPT !.error = "DuplicateKeyError"]
        ELSE LET forwarded ==
                     forward_to_support_groups([o EXCEPT !.tickets = @ \cup {doc}],
                                               FALSE, doc, {})
             IN  [forwarded EXCEPT
                      !.replies = @ \o <<reply_after>>,
                      !.pending_verifications =
                          IF remove_session THEN Del(@, u) ELSE @]

----------------------------------------------------------------------------
(* process_verification_step                                               *)

is_yes_no(text) == lower(text) \in {"yes", "no", "y", "n"}

is_no_word_only(text) == lower(text) = "no"

is_no(text) == lower(text) \in {"no", "n"}

is_yes(text) == lower(text) \in {"yes", "y"}

too_young_inclusive(created_dt) == now - timestamp(created_dt) <= SecondsPerDay

(* age = datetime.utcnow() - created_dt; age < timedelta(days=1)           *)
too_young(created_dt) == now - timestamp(created_dt) < SecondsPerDay

cr_match_case_sensitive(text) == IF fullmatch_CR(text) THEN text ELSE ""

(* re.fullmatch(r"CR\d{5,8}", text.upper()): the match's group, "" for None *)
cr_match(text) == IF fullmatch_CR(upper(text)) THEN upper(text) ELSE ""

in_whitelist_inverted(cr) == cr \notin VIP_CR_WHITELIST

in_whitelist(cr) == cr \in VIP_CR_WHITELIST

below_deriv_minimum(amount) == amount < REQUIRED_DERIV_DEPOSIT * CentsPerUnit

below_mentorship_minimum(amount) == amount < MENTORSHIP_DEPOSIT * CentsPerUnit

deriv_description(cr, amount) ==
    "Deriv VIP verification completed.\nCR: " \o cr \o "\nDeposit: $" \o format_2f(amount)

mentorship_description(data, amount) ==
    "Free Mentorship verification completed."
        \o (IF "cr" \in DOMAIN data THEN " CR: " \o data["cr"] ELSE "")
        \o " Deposit: $" \o format_2f(amount)

deriv_step_1(u, text) ==
    IF ~is_yes_no(text) THEN Replied(<<"answer_yes_or_no">>)
    ELSE IF is_no(text) THEN SessionRemoved(u, <<"create_account_first">>)
    ELSE SessionMoved(u, 2, pending_verifications[u].data, <<"ask_creation_date">>)

deriv_step_2_no_age_test(u, text) ==
    LET created_dt == strptime(text)
        data == pending_verifications[u].data
    IN  IF ~created_dt.ok THEN Replied(<<"date_format">>)
        ELSE SessionMoved(u, 3, Put(data, "created_date", isoformat(created_dt)),
                          <<"ask_cr_number">>)

deriv_step_2_records_nothing(u, text) ==
    LET created_dt == strptime(text)
        data == pending_verifications[u].data
    IN  IF ~created_dt.ok THEN Replied(<<"date_format">>)
        ELSE IF too_young(created_dt) THEN SessionRemoved(u, <<"account_too_young">>)
        ELSE SessionMoved(u, 3, data, <<"ask_cr_number">>)

deriv_step_2(u, text) ==
    LET created_dt == strptime(text)
        data == pending_verifications[u].data
    IN  IF ~created_dt.ok THEN Replied(<<"date_format">>)
        ELSE IF too_young(created_dt) THEN SessionRemoved(u, <<"account_too_young">>)
        ELSE SessionMoved(u, 3, Put(data, "created_date", isoformat(created_dt)),
                          <<"ask_cr_number">>)

deriv_step_3_forgets_date(u, text) ==
    LET cr == cr_match(text)
        data == Put(EmptyDict, "cr", cr)
    IN  IF cr = "" THEN Replied(<<"invalid_cr_format">>)
        ELSE IF in_whitelist(cr) THEN SessionMoved(u, 4, data, <<"tagged_send_screenshot">>)
        ELSE SessionMoved(u, 30, data, <<"not_in_list_ask_partner">>)

deriv_step_3(u, text) ==
    LET cr == cr_match(text)
        data == Put(pending_verifications[u].data, "cr", cr)
    IN  IF cr = "" THEN Replied(<<"invalid_cr_format">>)
        ELSE IF in_whitelist(cr) THEN SessionMoved(u, 4, data, <<"tagged_send_screenshot">>)
        ELSE SessionMoved(u, 30, data, <<"not_in_list_ask_partner">>)

deriv_step_30_keeps_session(u, text) ==
    IF ~is_yes_no(text) THEN Replied(<<"reply_yes_or_no">>)
    ELSE IF is_yes(text)
         THEN SessionMoved(u, 31, pending_verifications[u].data, <<"send_partner_screenshot">>)
    ELSE Replied(<<"tagging_guide">>)

deriv_step_30(u, text) ==
    IF ~is_yes_no(text) THEN Replied(<<"reply_yes_or_no">>)
    ELSE IF is_yes(text)
         THEN SessionMoved(u, 31, pending_verifications[u].data, <<"send_partner_screenshot">>)
    ELSE SessionRemoved(u, <<"tagging_guide">>)

deriv_step_5(u, text) ==
    LET m == search_number(text)
        amount == float(m)
        data == pending_verifications[u].data
    IN  IF m = "" THEN Replied(<<"send_amount_as_number">>)
        ELSE IF below_deriv_minimum(amount) THEN SessionRemoved(u, <<"deposit_below_minimum">>)
        ELSE IF "cr" \notin DOMAIN data THEN Raised(<<>>, "KeyError")
        ELSE create_company_ticket(Replied(<<>>), u, "Deriv VIP",
                                   deriv_description(data["cr"], amount),
                                   "deriv_all_set", TRUE)

mentorship_step_1_whitelist_only(u, text) ==
    LET cr == cr_match(text)
        data == pending_verifications[u].data
    IN  IF lower(text) = "done" THEN SessionMoved(u, 2, data, <<"send_screenshot_when_visible">>)
        ELSE IF cr = "" \/ ~in_whitelist(cr) THEN Replied(<<"valid_cr_or_done">>)
        ELSE SessionMoved(u, 2, Put(data, "cr", cr), <<"thanks_send_screenshot">>)

mentorship_step_1(u, text) ==
    LET cr == cr_match(text)
        data == pending_verifications[u].data
    IN  IF lower(text) = "done" THEN SessionMoved(u, 2, data, <<"send_screenshot_when_visible">>)
        ELSE IF cr = "" THEN Replied(<<"valid_cr_or_done">>)
        ELSE SessionMoved(u, 2, Put(data, "cr", cr), <<"thanks_send_screenshot">>)

mentorship_step_3(u, text) ==
    LET m == search_number(text)
        amount == float(m)
        data == pending_verifications[u].data
    IN  IF m = "" THEN Replied(<<"send_amount_as_plain_number">>)
        ELSE IF below_mentorship_minimum(amount)
             THEN SessionRemoved(u, <<"deposit_at_least_50">>)
        ELSE create_company_ticket(Replied(<<>>), u, "Free Mentorship",
                                   mentorship_description(data, amount),
                                   "mentorship_enrolled", TRUE)

fallback_clears_sessions(u) ==
    Outcome(EmptyDict, pending_tickets, tickets, <<"did_not_understand_restart">>, "")

fallback(u) == SessionRemoved(u, <<"did_not_understand_restart">>)

process_verification_step(update) ==
    LET u == update.user
        state == pending_verifications[u]
        text == strip(update.text)
        flow == state.flow
        step == state.step
    IN  IF flow = "deriv_vip" /\ step = 1 THEN deriv_step_1(u, text)
        ELSE IF flow = "deriv_vip" /\ step = 2 THEN deriv_step_2(u, text)
        ELSE IF flow = "deriv_vip" /\ step = 3 THEN deriv_step_3(u, text)
        ELSE IF flow = "deriv_vip" /\ step = 30 THEN deriv_step_30(u, text)
        ELSE IF flow = "deriv_vip" /\ step \in {4, 31}
             THEN Replied(<<"send_screenshot_as_image">>)
        ELSE IF flow = "deriv_vip" /\ step = 5 THEN deriv_step_5(u, text)
        ELSE IF flow = "mentorship" /\ step = 1 THEN mentorship_step_1(u, text)
        ELSE IF flow = "mentorship" /\ step = 3 THEN mentorship_step_3(u, text)
        ELSE fallback(u)

----------------------------------------------------------------------------
(* handle_photo                                                            *)

(* caption = update.message.caption or ""                                  *)
caption_of(update) == IF update.has_text THEN update.text ELSE ""

handle_photo_at_any_step(update) ==
    IF update.user \notin DOMAIN pending_verifications THEN Replied(<<>>)
    ELSE
    LET u == update.user
        state == pending_verifications[u]
    IN  [SessionMoved(u, IF state.flow = "deriv_vip" THEN 5 ELSE 3, state.data, <<>>)
            EXCEPT !.replies = <<"screenshot_received", "send_deposit_amount">>]

handle_photo_only_step_4(update) ==
    IF update.user \notin DOMAIN pending_verifications THEN Replied(<<>>)
    ELSE
    LET u == update.user
        state == pending_verifications[u]
        amount_match == search_number(caption_of(update))
        amount == float(amount_match)
        received == Replied(<<"screenshot_received">>)
    IN  IF state.flow = "deriv_vip" /\ state.step = 4
        THEN IF amount_match # "" /\ ~below_deriv_minimum(amount)
             THEN create_company_ticket(
                      received, u, "Deriv VIP",
                      deriv_description(IF "cr" \in DOMAIN state.data
                                        THEN state.data["cr"] ELSE "N/A", amount),
                      "deriv_all_set", TRUE)
             ELSE [SessionMoved(u, 5, state.data, <<>>) EXCEPT
                       !.replies = <<"screenshot_received", "send_deposit_amount">>]
        ELSE received

handle_photo(update) ==
    IF update.user \notin DOMAIN pending_verifications THEN Replied(<<>>)
    ELSE
    LET u == update.user
        state == pending_verifications[u]
        flow == state.flow
        step == state.step
        amount_match == search_number(caption_of(update))
        amount == float(amount_match)
        received == Replied(<<"screenshot_received">>)
    IN  IF flow = "deriv_vip" /\ step \in {4, 31}
        THEN IF amount_match # "" /\ ~below_deriv_minimum(amount)
             THEN create_company_ticket(
                      received, u, "Deriv VIP",
                      deriv_description(IF "cr" \in DOMAIN state.data
                                        THEN state.data["cr"] ELSE "N/A", amount),
                      "deriv_all_set", TRUE)
             ELSE [SessionMoved(u, 5, state.data, <<>>) EXCEPT
                       !.replies = <<"screenshot_received", "send_deposit_amount">>]
        ELSE IF flow = "mentorship" /\ step = 2
        THEN IF amount_match # "" /\ ~below_mentorship_minimum(amount)
             THEN create_company_ticket(
                      received, u, "Free Mentorship",
                      mentorship_description(state.data, amount),
                      "mentorship_enrolled", TRUE)
             ELSE [SessionMoved(u, 3, state.data, <<>>) EXCEPT
                       !.replies = <<"screenshot_received", "send_deposit_amount_80">>]
        ELSE received

----------------------------------------------------------------------------
(* handle_vip_callback, set_ticket_category, button_callback               *)

NewSession(flow) == [flow |-> flow, step |-> 1, data |-> EmptyDict]

handle_vip_callback_keeps_open_session(u, data) ==
    IF data \in {"vip_deriv", "vip_mentorship"} /\ u \in DOMAIN pending_verifications
    THEN Replied(<<"session_already_open">>)
    ELSE IF data = "vip_deriv"
    THEN Outcome(Put(pending_verifications, u, NewSession("deriv_vip")),
                 pending_tickets, tickets, <<"deriv_intro">>, "")
    ELSE IF data = "vip_currencies"
    THEN create_company_ticket(Replied(<<>>), u, "Currencies VIP",
                               "Request to join Currencies VIP premium channel.",
                               "currencies_logged", FALSE)
    ELSE IF data = "vip_mentorship"
    THEN Outcome(Put(pending_verifications, u, NewSession("mentorship")),
                 pending_tickets, tickets, <<"mentorship_intro">>, "")
    ELSE Replied(<<>>)

handle_vip_callback(u, data) ==
    IF data = "vip_deriv"
    THEN Outcome(Put(pending_verifications, u, NewSession("deriv_vip")),
                 pending_tickets, tickets, <<"deriv_intro">>, "")
    ELSE IF data = "vip_currencies"
    THEN create_company_ticket(Replied(<<>>), u, "Currencies VIP",
                               "Request to join Currencies VIP premium channel.",
                               "currencies_logged", FALSE)
    ELSE IF data = "vip_mentorship"
    THEN Outcome(Put(pending_verifications, u, NewSession("mentorship")),
                 pending_tickets, tickets, <<"mentorship_intro">>, "")
    ELSE Replied(<<>>)

(* category.replace("_", " ").title()                                      *)
RECURSIVE title_from(_, _)
title_from(s, start) ==
    IF Len(s) = 0 THEN ""
    ELSE LET c == Ch(s, 1)
             out == IF c = "_" THEN " " ELSE IF start THEN upper_char(c) ELSE lower_char(c)
             letter == lower_char(c) \in DOMAIN ToUpper
         IN  out \o title_from(SubSeq(s, 2, Len(s)), ~letter)

set_ticket_category(u, category) ==
    Outcome(pending_verifications,
            Put(pending_tickets, u,
                [category |-> title_from(category, TRUE), step |-> "description"]),
            tickets, <<"describe_your_issue">>, "")

StartsWith(s, prefix) == Len(s) >= Len(prefix) /\ SubSeq(s, 1, Len(prefix)) = prefix

(* update_one(filter, {"$set": fields}) applied to the document it matches *)
set_fields(doc, fields) ==
    [k \in DOMAIN doc \cup DOMAIN fields |-> IF k \in DOMAIN fields THEN fields[k] ELSE doc[k]]

find_one(id) == {t \in tickets : t.ticket_id = id}

handle_take_ticket_any_status(u, id) ==
    IF find_one(id) = {} THEN Replied(<<"ticket_not_found">>)
    ELSE
    LET ticket == CHOOSE t \in find_one(id) : TRUE
        taken == set_fields(ticket, [status |-> "assigned", assigned_to |-> u,
                                     assigned_at |-> now, updated_at |-> now])
    IN  Outcome(pending_verifications, pending_tickets,
                (tickets \ {ticket}) \cup {taken},
                <<"ticket_assigned_to_you", "taken_by">>, "")

handle_take_ticket(u, id) ==
    IF find_one(id) = {} THEN Replied(<<"ticket_not_found">>)
    ELSE
    LET ticket == CHOOSE t \in find_one(id) : TRUE
        taken == set_fields(ticket, [status |-> "assigned", assigned_to |-> u,
                                     assigned_at |-> now, updated_at |-> now])
    IN  IF ticket.status # "open" THEN Replied(<<"ticket_no_longer_open">>)
        ELSE Outcome(pending_verifications, pending_tickets,
                     (tickets \ {ticket}) \cup {taken},
                     <<"ticket_assigned_to_you", "taken_by">>, "")

handle_close_ticket_deletes(u, id) ==
    IF find_one(id) = {} THEN Replied(<<"ticket_not_found">>)
    ELSE Outcome(pending_verifications, pending_tickets, tickets \ find_one(id),
                 <<"ticket_closed", "closed_by">>, "")

handle_close_ticket(u, id) ==
    IF find_one(id) = {} THEN Replied(<<"ticket_not_found">>)
    ELSE
    LET ticket == CHOOSE t \in find_one(id) : TRUE
        closed == set_fields(ticket, [status |-> "closed", closed_by |-> u,
                                      closed_at |-> now, updated_at |-> now])
    IN  Outcome(pending_verifications, pending_tickets,
                (tickets \ {ticket}) \cup {closed},
                <<"ticket_closed", "closed_by">>, "")

AfterPrefix(s, prefix) == SubSeq(s, Len(prefix) + 1, Len(s))

button_callback(update) ==
    LET u == update.user
        data == update.text
    IN
    IF data = "vip_start" THEN Replied(<<"vip_menu">>)
    ELSE IF StartsWith(data, "vip_") THEN handle_vip_callback(u, data)
    ELSE IF StartsWith(data, "category_")
    THEN set_ticket_category(u, SubSeq(data, Len("category_") + 1, Len(data)))
    ELSE IF StartsWith(data, "take_") THEN handle_take_ticket(u, AfterPrefix(data, "take_"))
    ELSE IF StartsWith(data, "close_") THEN handle_close_ticket(u, AfterPrefix(data, "close_"))
    ELSE Replied(<<>>)

----------------------------------------------------------------------------
(* process_ticket_input and handle_message                                 *)

generic_ticket_doc(u, category, description) ==
    [ticket_id |-> ticket_id(now), user_id |-> u, category |-> category,
     description |-> description, status |-> "open", priority |-> "normal",
     created_at |-> now]

(* The groups are notified before insert_one is called.                    *)
process_ticket_input_forwards_first(update, message_text) ==
    LET u == update.user
    IN
    IF u \notin DOMAIN pending_tickets THEN Replied(<<>>)
    ELSE
    LET ticket_data == pending_tickets[u]
        doc == generic_ticket_doc(u, ticket_data.category, message_text)
        forwarded == forward_to_support_groups(
                         Outcome(pending_verifications, pending_tickets, tickets, <<>>, ""),
                         TRUE, doc, update.unreachable)
    IN  IF DuplicateKey(doc) THEN [forwarded EXCEPT !.error = "DuplicateKeyError"]
        ELSE [forwarded EXCEPT !.pending_tickets = Del(pending_tickets, u),
                               !.tickets = tickets \cup {doc},
                               !.replies = <<"ticket_created">>]

process_ticket_input_keeps_entry(update, message_text) ==
    LET u == update.user
    IN
    IF u \notin DOMAIN pending_tickets THEN Replied(<<>>)
    ELSE
    LET ticket_data == pending_tickets[u]
        doc == generic_ticket_doc(u, ticket_data.category, message_text)
    IN  IF DuplicateKey(doc) THEN Raised(<<>>, "DuplicateKeyError")
        ELSE forward_to_support_groups(
                 Outcome(pending_verifications, pending_tickets,
                         tickets \cup {doc}, <<"ticket_created">>, ""),
                 TRUE, doc, update.unreachable)

(* insert_one, del pending_tickets[user_id], the reply, then                *)
(* forward_to_support_groups(context, ticket_doc)                          *)
process_ticket_input(update, message_text) ==
    LET u == update.user
    IN
    IF u \notin DOMAIN pending_tickets THEN Replied(<<>>)
    ELSE
    LET ticket_data == pending_tickets[u]
        doc == generic_ticket_doc(u, ticket_data.category, message_text)
    IN  IF ticket_data.step # "description" THEN Replied(<<>>)
        ELSE IF DuplicateKey(doc) THEN Raised(<<>>, "DuplicateKeyError")
        ELSE forward_to_support_groups(
                 Outcome(pending_verifications, Del(pending_tickets, u),
                         tickets \cup {doc}, <<"ticket_created">>, ""),
                 TRUE, doc, update.unreachable)

handle_message_ticket_first(update) ==
    LET u == update.user
    IN
    IF strip(update.text) # "" /\ u \in DOMAIN pending_tickets
    THEN process_ticket_input(update, strip(update.text))
    ELSE IF u \in DOMAIN pending_verifications THEN process_verification_step(update)
    ELSE Replied(<<"knowledge_base_answer">>)

handle_message(update) ==
    LET u == update.user
    IN
    IF u \in DOMAIN pending_verifications THEN process_verification_step(update)
    ELSE IF update.chat_type \in {"group", "supergroup"} /\ ~update.addressed
    THEN Replied(<<>>)
    ELSE IF strip(update.text) = "" THEN Replied(<<>>)
    ELSE IF u \in DOMAIN pending_tickets
    THEN process_ticket_input(update, strip(update.text))
    ELSE Replied(<<"knowledge_base_answer">>)

----------------------------------------------------------------------------
(* connect_command and disconnect_command                                  *)

AdminStatuses == {"administrator", "creator"}

(* insert_one without the test for a record of the group                   *)
connect_command_again(update) ==
    IF update.chat_type \notin {"group", "supergroup"} THEN Replied(<<"only_in_groups">>)
    ELSE IF update.member_status \notin AdminStatuses
    THEN Replied(<<"only_admins_connect">>)
    ELSE [Replied(<<"group_connected">>) EXCEPT
              !.groups = @ \cup {[group_id |-> update.chat_id, status |-> "active",
                                  connected_at |-> now,
                                  connected_by |-> update.user]}]

(* The answer of a disconnect without the delete_one                       *)
disconnect_command_keeps_record(update) ==
    IF update.chat_type \notin {"group", "supergroup"} THEN Replied(<<"only_in_groups">>)
    ELSE IF update.member_status \notin AdminStatuses
    THEN Replied(<<"only_admins_disconnect">>)
    ELSE IF \E g \in groups : g.group_id = update.chat_id
    THEN Replied(<<"group_disconnected">>)
    ELSE Replied(<<"group_was_not_connected">>)

connect_command(update) ==
    IF update.chat_type \notin {"group", "supergroup"} THEN Replied(<<"only_in_groups">>)
    ELSE IF update.member_status \notin AdminStatuses
    THEN Replied(<<"only_admins_connect">>)
    ELSE IF \E g \in groups : g.group_id = update.chat_id
    THEN Replied(<<"already_connected">>)
    ELSE [Replied(<<"group_connected">>) EXCEPT
              !.groups = @ \cup {[group_id |-> update.chat_id, status |-> "active",
                                  connected_at |-> now,
                                  connected_by |-> update.user]}]

disconnect_command(update) ==
    IF update.chat_type \notin {"group", "supergroup"} THEN Replied(<<"only_in_groups">>)
    ELSE IF update.member_status \notin AdminStatuses
    THEN Replied(<<"only_admins_disconnect">>)
    ELSE IF \E g \in groups : g.group_id = update.chat_id
    THEN [Replied(<<"group_disconnected">>) EXCEPT
              !.groups = {g \in @ : g.group_id # update.chat_id}]
    ELSE Replied(<<"group_was_not_connected">>)

----------------------------------------------------------------------------
(* The state machine                                                       *)

NoUpdate == Update("", 0, FALSE, "")

Init ==
    /\ pending_verifications = EmptyDict
    /\ pending_tickets = EmptyDict
    /\ tickets = {}
    /\ groups = {}
    /\ now = StartTime
    /\ last_update = NoUpdate
    /\ error = ""
    /\ replies = <<>>
    /\ sends = <<>>
    /\ in_flight = <<>>

(* What a handler leaves behind when it returns                            *)
ApplyOutcome(o, update) ==
    /\ Cardinality(o.tickets) <= MaxTickets
    /\ pending_verifications' = o.pending_verifications
    /\ pending_tickets' = o.pending_tickets
    /\ tickets' = o.tickets
    /\ groups' = o.groups
    /\ last_update' = update
    /\ error' = o.error
    /\ replies' = o.replies
    /\ sends' = o.sends
    /\ UNCHANGED now

(* One update handled from dispatch to return, nothing else in between     *)
Apply(o, update) ==
    /\ ApplyOutcome(o, update)
    /\ UNCHANGED in_flight

HandleMessage(update) ==
    /\ update.kind = "text"
    /\ LET o == handle_message(update)
       IN  Apply(o, update)

HandlePhoto(update) ==
    /\ update.kind = "photo"
    /\ LET o == handle_photo(update)
       IN  Apply(o, update)

ButtonCallback(update) ==
    /\ update.kind = "callback"
    /\ LET o == button_callback(update)
       IN  Apply(o, update)

ConnectCommand(update) ==
    /\ update.kind = "command"
    /\ update.text = "/connect"
    /\ LET o == connect_command(update)
       IN  Apply(o, update)

DisconnectCommand(update) ==
    /\ update.kind = "command"
    /\ update.text = "/disconnect"
    /\ LET o == disconnect_command(update)
       IN  Apply(o, update)

Tick ==
    /\ now < StartTime + MaxTicks
    /\ now' = now + 1
    /\ UNCHANGED <<pending_verifications, pending_tickets, tickets, groups,
                   last_update, error, replies, sends, in_flight>>

Next ==
    \/ \E update \in TextUpdates(Texts) : HandleMessage(update)
    \/ \E update \in PhotoUpdates : HandlePhoto(update)
    \/ \E update \in CallbackUpdates("vip_deriv") : ButtonCallback(update)
    \/ Tick

Spec == Init /\ [][Next]_vars

NextMentorship ==
    \/ \E update \in TextUpdates(MentorshipTexts) : HandleMessage(update)
    \/ \E update \in PhotoUpdates : HandlePhoto(update)
    \/ \E update \in CallbackUpdates("vip_mentorship") : ButtonCallback(update)
    \/ Tick

SpecMentorship == Init /\ [][NextMentorship]_vars

(* Both flows and the generic ticket form for one user, within one clock   *)
(* second                                                                  *)
NextFlows ==
    \/ \E update \in TextUpdates(FlowTexts) : HandleMessage(update)
    \/ \E update \in PhotoUpdates : HandlePhoto(update)
    \/ \E update \in FlowCallbacks : ButtonCallback(update)

SpecFlows == Init /\ [][NextFlows]_vars

(* The support groups, the generic ticket form and the Currencies VIP      *)
(* request                                                                 *)
NextGroups ==
    \/ \E update \in GroupTextUpdates : HandleMessage(update)
    \/ \E update \in GroupCallbacks : ButtonCallback(update)
    \/ \E update \in ConnectCommands : ConnectCommand(update)
    \/ \E update \in DisconnectCommands : DisconnectCommand(update)
    \/ Tick

SpecGroups == Init /\ [][NextGroups]_vars

(* The handler the application registered for the kind of update           *)
process_update(update) ==
    CASE update.kind = "text" -> handle_message(update)
      [] update.kind = "photo" -> handle_photo(update)
      [] OTHER -> button_callback(update)

RemoveAt(seq, i) == SubSeq(seq, 1, i - 1) \o SubSeq(seq, i + 1, Len(seq))

(* The application is built without concurrent_updates: the next update is *)
(* taken from the queue only when the handler of the previous one returned *)
ProcessUpdateBegin_concurrent(update) ==
    /\ Len(in_flight) <= 1
    /\ in_flight' = Append(in_flight, update)
    /\ UNCHANGED <<pending_verifications, pending_tickets, tickets, groups, now,
                   last_update, error, replies, sends>>

ProcessUpdateBegin(update) ==
    /\ in_flight = <<>>
    /\ in_flight' = Append(in_flight, update)
    /\ UNCHANGED <<pending_verifications, pending_tickets, tickets, groups, now,
                   last_update, error, replies, sends>>

(* A handler in flight returns: its writes to the stores are in place      *)
ProcessUpdateEnd ==
    \E i \in 1..Len(in_flight) :
        LET update == in_flight[i]
            o == process_update(update)
        IN  /\ ApplyOutcome(o, update)
            /\ in_flight' = RemoveAt(in_flight, i)

(* The Deriv flow within one clock second, with the handler's start and    *)
(* return as separate steps                                                *)
NextDispatch ==
    \/ \E update \in TextUpdates(FlowTexts) \cup PhotoUpdates
                     \cup CallbackUpdates("vip_deriv") :
          ProcessUpdateBegin(update)
    \/ ProcessUpdateEnd

SpecDispatch == Init /\ [][NextDispatch]_vars

(* Both flows for two users                                                *)
NextUsers ==
    \/ \E update \in UserTextUpdates : HandleMessage(update)
    \/ \E update \in UserPhotoUpdates : HandlePhoto(update)
    \/ \E update \in UserCallbacks : ButtonCallback(update)
    \/ Tick

SpecUsers == Init /\ [][NextUsers]_vars

(* A member of a support group presses the buttons under a forwarded       *)
(* ticket; the last id is of no ticket.                                    *)
Staff == {201}

TicketIds == {ticket_id(t) : t \in StartTime..(StartTime + MaxTicks)} \cup {"TKT-0"}

StaffGroupCommands ==
    {Command(command, "supergroup", -1001, 102, "administrator") :
        command \in {"/connect", "/disconnect"}}

TicketCallbacks ==
    {Update("callback", 102, TRUE, "vip_currencies"),
     Update("callback", 101, TRUE, "category_mentorship")}

StaffCallbacks ==
    {Update("callback", u, TRUE, action \o id) :
        u \in Staff, action \in {"take_", "close_"}, id \in TicketIds}

(* The tickets of two users, the support groups and the staff buttons      *)
NextStaff ==
    \/ \E update \in TextUpdates({"my issue"}) : HandleMessage(update)
    \/ \E update \in TicketCallbacks \cup StaffCallbacks : ButtonCallback(update)
    \/ \E update \in StaffGroupCommands : ConnectCommand(update)
    \/ \E update \in StaffGroupCommands : DisconnectCommand(update)
    \/ Tick

SpecStaff == Init /\ [][NextStaff]_vars

(* The stages of the two flows: a stage is the set of steps one branch of  *)
(* the handlers serves (steps 4 and 31 both wait for the balance photo).   *)
FlowStages ==
    {<<"deriv_vip", {step}>> : step \in {1, 2, 3, 30, 5}}
        \cup {<<"deriv_vip", {4, 31}>>}
        \cup {<<"mentorship", {step}>> : step \in {1, 2, 3}}

(* The kind of update a stage waits for                                    *)
ExpectedKind(flow, steps) ==
    IF (flow = "deriv_vip" /\ steps = {4, 31}) \/ (flow = "mentorship" /\ steps = {2})
    THEN "photo" ELSE "text"

LiveTexts ==
    {"Yes", "NO", "2024-02-29", "CR5499637", "CR12345", "50.00", "49.99", "Done"}

LivePhotoUpdates == {Update("photo", 101, TRUE, s) : s \in {"my balance", "deposit 60"}}

LiveCallbacks ==
    {Update("callback", 101, TRUE, data) : data \in {"vip_deriv", "vip_mentorship"}}

(* The session of u is at a step of the stage.                             *)
WaitsAt(u, flow, steps) ==
    /\ u \in DOMAIN pending_verifications
    /\ pending_verifications[u].flow = flow
    /\ pending_verifications[u].step \in steps

(* The user sent an update of the kind the stage waits for, and its        *)
(* handler took the session off the stage: to another step, or out of the  *)
(* store.                                                                  *)
StepForward(u, flow, steps) ==
    /\ WaitsAt(u, flow, steps)
    /\ last_update'.user = u
    /\ last_update'.kind = ExpectedKind(flow, steps)
    /\ \/ u \notin DOMAIN pending_verifications'
       \/ pending_verifications'[u].step \notin steps

(* Some update of the input sets is such an input: StepForward is enabled. *)
CanStepForward(u, flow, steps) ==
    /\ WaitsAt(u, flow, steps)
    /\ \E update \in TextUpdates(LiveTexts) \cup LivePhotoUpdates :
          /\ update.user = u
          /\ update.kind = ExpectedKind(flow, steps)
          /\ LET o == process_update(update)
             IN  /\ Cardinality(o.tickets) <= MaxTickets
                 /\ \/ u \notin DOMAIN o.pending_verifications
                    \/ o.pending_verifications[u].step \notin steps

(* Strong fairness of StepForward, with its enabling condition written as  *)
(* the state predicate CanStepForward: SF_vars(StepForward(u, flow, steps)) *)
UserEventuallyAnswers(u, flow, steps) ==
    \/ <>[]~CanStepForward(u, flow, steps)
    \/ []<><<StepForward(u, flow, steps)>>_vars

NextLive ==
    \/ \E update \in TextUpdates(LiveTexts) : HandleMessage(update)
    \/ \E update \in LivePhotoUpdates : HandlePhoto(update)
    \/ \E update \in LiveCallbacks : ButtonCallback(update)

(* Both flows of one user; at every step the user eventually sends an      *)
(* input that the step accepts.                                            *)
SpecLive ==
    /\ Init
    /\ [][NextLive]_vars
    /\ \A stage \in FlowStages : UserEventuallyAnswers(101, stage[1], stage[2])


----------------------------------------------------------------------------
(* The handlers that end a flow in a ticket, step by step between their    *)
(* await points: the session is read, the ticket is inserted               *)
(* (create_company_ticket), then the user is told and the session deleted. *)

MaxQueued == 2

AwaitTexts == {"Yes", "2024-02-29", "CR5499637", "50.00"}

AwaitUpdates ==
    TextUpdates(AwaitTexts)
        \cup {Update("photo", 101, TRUE, s) : s \in {"my balance", "deposit 60"}}
        \cup {Update("callback", 101, TRUE, "vip_deriv")}

NoRequest == [attempt |-> FALSE, category |-> "", description |-> "", reply |-> ""]

TicketRequest(category, description, reply) ==
    [attempt |-> TRUE, category |-> category, description |-> description,
     reply |-> reply]

(* Whether the handler of the update goes on to create_company_ticket, and *)
(* with what: the photo with a sufficient amount at a photo step, the text *)
(* with a sufficient amount at an amount step.                             *)
ticket_request(update) ==
    IF update.user \notin DOMAIN pending_verifications
          \/ update.kind \notin {"text", "photo"}
    THEN NoRequest
    ELSE
    LET state == pending_verifications[update.user]
        m == search_number(IF update.kind = "photo" THEN caption_of(update)
                           ELSE strip(update.text))
        amount == float(m)
        waits_for == IF update.kind = "photo" THEN {4, 31} ELSE {5}
        mentorship_waits_for == IF update.kind = "photo" THEN 2 ELSE 3
    IN  IF m = "" THEN NoRequest
        ELSE IF /\ state.flow = "deriv_vip"
                /\ state.step \in waits_for
                /\ ~below_deriv_minimum(amount)
                /\ "cr" \in DOMAIN state.data
        THEN TicketRequest("Deriv VIP", deriv_description(state.data["cr"], amount),
                           "deriv_all_set")
        ELSE IF /\ state.flow = "mentorship"
                /\ state.step = mentorship_waits_for
                /\ ~below_mentorship_minimum(amount)
        THEN TicketRequest("Free Mentorship", mentorship_description(state.data, amount),
                           "mentorship_enrolled")
        ELSE NoRequest

Task(update, pc, request) == [update |-> update, pc |-> pc, request |-> request]

(* The updater puts a received update into the update queue.               *)
UpdateQueued(update) ==
    /\ Len(in_flight) < MaxQueued
    /\ in_flight' = Append(in_flight, Task(update, "queued", NoRequest))
    /\ UNCHANGED <<pending_verifications, pending_tickets, tickets, groups, now,
                   last_update, error, replies, sends>>

(* Which queued update's handler may run: with concurrent updates, any.    *)
Runnable_concurrently(i) == i \in 1..Len(in_flight)

(* Which queued update's handler may run: the application awaits the       *)
(* handler of one update before it takes the next from the queue.          *)
Runnable(i) == i = 1 /\ in_flight # <<>>

(* The handler starts: it reads the session. A handler that will create a  *)
(* ticket stops at its first await; any other runs to its end.             *)
HandlerStart(i) ==
    /\ Runnable(i)
    /\ in_flight[i].pc = "queued"
    /\ LET update == in_flight[i].update
           request == ticket_request(update)
       IN  IF request.attempt
           THEN /\ in_flight' = [in_flight EXCEPT ![i] = Task(update, "insert", request)]
                /\ last_update' = update
                /\ error' = ""
                /\ replies' = IF update.kind = "photo" THEN <<"screenshot_received">>
                              ELSE <<>>
                /\ sends' = <<>>
                /\ UNCHANGED <<pending_verifications, pending_tickets, tickets, groups,
                               now>>
           ELSE /\ ApplyOutcome(process_update(update), update)
                /\ in_flight' = RemoveAt(in_flight, i)

(* insert_one returns or raises; raising ends the handler.                 *)
HandlerInsert(i) ==
    /\ Runnable(i)
    /\ in_flight[i].pc = "insert"
    /\ LET task == in_flight[i]
           doc == company_ticket_doc(task.update.user, task.request.category,
                                     task.request.description)
       IN  /\ last_update' = task.update
           /\ IF DuplicateKey(doc)
              THEN /\ error' = "DuplicateKeyError"
                   /\ in_flight' = RemoveAt(in_flight, i)
                   /\ UNCHANGED tickets
              ELSE /\ Cardinality(tickets \cup {doc}) <= MaxTickets
                   /\ tickets' = tickets \cup {doc}
                   /\ error' = ""
                   /\ in_flight' = [in_flight EXCEPT ![i].pc = "delete"]
    /\ UNCHANGED <<pending_verifications, pending_tickets, groups, now, replies, sends>>

(* The user is told, then del self.pending_verifications[user_id]          *)
HandlerDelete(i) ==
    /\ Runnable(i)
    /\ in_flight[i].pc = "delete"
    /\ LET task == in_flight[i]
           u == task.update.user
       IN  /\ last_update' = task.update
           /\ replies' = Append(replies, task.request.reply)
           /\ IF u \in DOMAIN pending_verifications
              THEN /\ pending_verifications' = Del(pending_verifications, u)
                   /\ error' = ""
              ELSE /\ error' = "KeyError"
                   /\ UNCHANGED pending_verifications
    /\ in_flight' = RemoveAt(in_flight, i)
    /\ UNCHANGED <<pending_tickets, tickets, groups, now, sends>>

NextAwait ==
    \/ \E update \in AwaitUpdates : UpdateQueued(update)
    \/ \E i \in 1..MaxQueued : HandlerStart(i)
    \/ \E i \in 1..MaxQueued : HandlerInsert(i)
    \/ \E i \in 1..MaxQueued : HandlerDelete(i)

SpecAwait == Init /\ [][NextAwait]_vars


----------------------------------------------------------------------------
(* handle_take_ticket between its await points: find_one and the test of   *)
(* the status read, then update_one and the answer to the taker.           *)

Takers == {201, 202}

TakeUpdates ==
    {Update("callback", u, TRUE, "take_" \o ticket_id(StartTime)) : u \in Takers}
        \cup {Update("callback", 201, TRUE, "close_" \o ticket_id(StartTime)),
              Update("callback", 102, TRUE, "vip_currencies")}

IsTake(update) == update.kind = "callback" /\ StartsWith(update.text, "take_")

(* The handler of any other update                                         *)
OtherHandler(i) ==
    /\ Runnable(i)
    /\ ~IsTake(in_flight[i].update)
    /\ HandlerStart(i)

(* ticket = await self.db.tickets.find_one(...): a ticket that is missing  *)
(* or not open ends the handler with its answer.                           *)
TakeRead(i) ==
    /\ Runnable(i)
    /\ in_flight[i].pc = "queued"
    /\ IsTake(in_flight[i].update)
    /\ LET update == in_flight[i].update
           found == find_one(AfterPrefix(update.text, "take_"))
       IN  /\ last_update' = update
           /\ error' = ""
           /\ sends' = <<>>
           /\ IF found = {}
              THEN /\ replies' = <<"ticket_not_found">>
                   /\ in_flight' = RemoveAt(in_flight, i)
              ELSE IF \E t \in found : t.status # "open"
              THEN /\ replies' = <<"ticket_no_longer_open">>
                   /\ in_flight' = RemoveAt(in_flight, i)
              ELSE /\ replies' = <<>>
                   /\ in_flight' = [in_flight EXCEPT ![i].pc = "update_one"]
    /\ UNCHANGED <<pending_verifications, pending_tickets, tickets, groups, now>>

(* await self.db.tickets.update_one({"ticket_id": ticket_id}, {"$set": …}) *)
(* on the ticket as it is stored now, then the answer to the taker.        *)
TakeUpdate(i) ==
    /\ Runnable(i)
    /\ in_flight[i].pc = "update_one"
    /\ LET update == in_flight[i].update
           found == find_one(AfterPrefix(update.text, "take_"))
       IN  /\ last_update' = update
           /\ tickets' =
                 (tickets \ found)
                     \cup {set_fields(t, [status |-> "assigned", assigned_to |-> update.user,
                                          assigned_at |-> now, updated_at |-> now]) :
                              t \in found}
           /\ replies' = <<"ticket_assigned_to_you", "taken_by">>
    /\ in_flight' = RemoveAt(in_flight, i)
    /\ UNCHANGED <<pending_verifications, pending_tickets, groups, now, error, sends>>

NextTake ==
    \/ \E update \in TakeUpdates : UpdateQueued(update)
    \/ \E i \in 1..MaxQueued : OtherHandler(i)
    \/ \E i \in 1..MaxQueued : TakeRead(i)
    \/ \E i \in 1..MaxQueued : TakeUpdate(i)

SpecTake == Init /\ [][NextTake]_vars

----------------------------------------------------------------------------
(* Vocabulary of the properties                                            *)

HasSession(u) == u \in DOMAIN pending_verifications

At(u, flow, step) ==
    /\ HasSession(u)
    /\ pending_verifications[u].flow = flow
    /\ pending_verifications[u].step = step

(* This step is a handler run for an update of kind `kind` sent by u.      *)
Handles(u, kind) ==
    /\ now' = now
    /\ last_update'.kind = kind
    /\ last_update'.user = u

SessionGone(u) == pending_verifications' = Del(pending_verifications, u)

SessionAt(u, step, data) ==
    pending_verifications' =
        [pending_verifications EXCEPT ![u] = [flow |-> @.flow, step |-> step, data |-> data]]

(* The first number of a text in cents, -1 when it holds none.             *)
FirstNumber(s) == IF search_number(s) = "" THEN -1 ELSE float(search_number(s))

WellFormedCode(s) ==
    /\ Len(s) \in 7..10
    /\ SubSeq(s, 1, 2) = "CR"
    /\ \A i \in 3..Len(s) : Ch(s, i) \in DigitChars

YesAnswers == {"yes", "Yes", "YES", "y", "Y"}

NoAnswers == {"no", "No", "nO", "NO", "n", "N"}

----------------------------------------------------------------------------
(* C1: in the Broker-VIP flow, a photo whose caption's first number is at  *)
(* least the minimum deposit, sent by a user whose session stands at step  *)
(* 4 (account confirmed, date old enough, whitelisted code recorded),      *)
(* inserts one open "Deriv VIP" ticket whose description holds the         *)
(* recorded code and the amount with two decimals, and removes the         *)
(* session.                                                                *)
C1_WhitelistedPhotoSucceeds ==
    [][\A u \in Users :
        (/\ Handles(u, "photo")
         /\ At(u, "deriv_vip", 4)
         /\ FirstNumber(caption_of(last_update')) >= REQUIRED_DERIV_DEPOSIT * CentsPerUnit)
        => /\ SessionGone(u)
           /\ \E t \in tickets' :
                 /\ t \notin tickets
                 /\ tickets' = tickets \cup {t}
                 /\ t.user_id = u
                 /\ t.category = "Deriv VIP"
                 /\ t.status = "open"
                 /\ Contains(t.description, pending_verifications[u].data["cr"])
                 /\ Contains(t.description,
                             format_2f(FirstNumber(caption_of(last_update'))))]_vars

(* The scenario of C1 with no other ticket of the same second does end in  *)
(* the ticket: a reachable state.                                          *)
C1_ScenarioTicket ==
    /\ last_update = Update("photo", 101, TRUE, "deposit 60")
    /\ ~HasSession(101)
    /\ \E t \in tickets :
          /\ t.category = "Deriv VIP"
          /\ t.user_id = 101
          /\ t.description = "Deriv VIP verification completed.\nCR: CR5499637\nDeposit: $60.00"

(* C2: at step 3 of the Broker-VIP flow a text either leaves the session   *)
(* as it is (ill-formed code), or records the code and moves to step 4     *)
(* (code in the whitelist) or to step 30 (code not in it); the ticket      *)
(* store is unchanged in all three cases.                                  *)
C2_AffiliateCodeStep ==
    [][\A u \in Users :
        (Handles(u, "text") /\ At(u, "deriv_vip", 3))
        => LET code == upper(strip(last_update'.text))
               data == Put(pending_verifications[u].data, "cr", code)
           IN  /\ tickets' = tickets
               /\ ~WellFormedCode(code) => UNCHANGED pending_verifications
               /\ (WellFormedCode(code) /\ code \in VIP_CR_WHITELIST) => SessionAt(u, 4, data)
               /\ (WellFormedCode(code) /\ code \notin VIP_CR_WHITELIST)
                      => SessionAt(u, 30, data)]_vars

C2_Witness ==
    /\ last_update = Update("text", 101, TRUE, "CR12345")
    /\ At(101, "deriv_vip", 30)
    /\ pending_verifications[101].data["cr"] = "CR12345"
    /\ replies = <<"not_in_list_ask_partner">>

(* C3: at step 2 of the Broker-VIP flow a well-formed date less than one   *)
(* day before the current time (today's and future dates included)         *)
(* removes the session and creates no ticket; a date at least one day      *)
(* before it is recorded and moves the session to step 3.                  *)
C3_CreationDateStep ==
    [][\A u \in Users :
        (/\ Handles(u, "text")
         /\ At(u, "deriv_vip", 2)
         /\ strptime(strip(last_update'.text)).ok)
        => LET d == strptime(strip(last_update'.text))
               midnight == DaysFromCivil(d.year, d.month, d.day) * SecondsPerDay
           IN  /\ tickets' = tickets
               /\ midnight + SecondsPerDay > now => SessionGone(u)
               /\ midnight + SecondsPerDay <= now
                      => SessionAt(u, 3, Put(pending_verifications[u].data,
                                             "created_date", isoformat(d)))]_vars

(* The boundary: a date exactly one day old has moved the session on.      *)
C3_Witness ==
    /\ last_update = Update("text", 101, TRUE, "2024-03-01")
    /\ now = timestamp(strptime("2024-03-02"))
    /\ At(101, "deriv_vip", 3)
    /\ pending_verifications[101].data["created_date"] = "2024-03-01T00:00:00"

(* C4: at step 1 of the Broker-VIP flow the answer no or n, in any letter  *)
(* case, removes the session and creates no ticket.                        *)
C4_NoAtAccountConfirm ==
    [][\A u \in Users :
        (/\ Handles(u, "text")
         /\ At(u, "deriv_vip", 1)
         /\ strip(last_update'.text) \in NoAnswers)
        => SessionGone(u) /\ tickets' = tickets]_vars

C4_Witness ==
    /\ last_update = Update("text", 101, TRUE, "n")
    /\ ~HasSession(101)
    /\ replies = <<"create_account_first">>

(* C5: a session stands at step 30 only with a well-formed code that is    *)
(* not in the whitelist; there yes moves it to step 31 and no removes it,  *)
(* and neither changes the ticket store.                                   *)
C5_PartnerConfirmStep ==
    [][\A u \in Users :
        /\ (Handles(u, "text") /\ At(u, "deriv_vip", 30))
           => /\ tickets' = tickets
              /\ strip(last_update'.text) \in YesAnswers
                     => SessionAt(u, 31, pending_verifications[u].data)
              /\ strip(last_update'.text) \in NoAnswers => SessionGone(u)
        /\ (u \in DOMAIN pending_verifications'
            /\ pending_verifications'[u].flow = "deriv_vip"
            /\ pending_verifications'[u].step = 30)
           => /\ "cr" \in DOMAIN pending_verifications'[u].data
              /\ WellFormedCode(pending_verifications'[u].data["cr"])
              /\ pending_verifications'[u].data["cr"] \notin VIP_CR_WHITELIST]_vars

C5_Witness ==
    /\ last_update = Update("text", 101, TRUE, "NO")
    /\ replies = <<"tagging_guide">>
    /\ ~HasSession(101)
    /\ tickets = {}

(* C6: a photo at a proof step (4 or 31) whose caption holds a number      *)
(* below the minimum deposit removes the session and creates no ticket.    *)
C6_LowCaptionAborts ==
    [][\A u \in Users :
        (/\ Handles(u, "photo")
         /\ (At(u, "deriv_vip", 4) \/ At(u, "deriv_vip", 31))
         /\ FirstNumber(caption_of(last_update')) >= 0
         /\ FirstNumber(caption_of(last_update')) < REQUIRED_DERIV_DEPOSIT * CentsPerUnit)
        => SessionGone(u) /\ tickets' = tickets]_vars

(* The photo with caption "49.99" at step 4 has left the session at step 5. *)
C6_Witness ==
    /\ last_update = Update("photo", 101, TRUE, "49.99")
    /\ At(101, "deriv_vip", 5)
    /\ replies = <<"screenshot_received", "send_deposit_amount">>

(* C7: a photo at a proof step (4 or 31) with no caption or no number in   *)
(* it moves the session to step 5 with its fields kept and creates no      *)
(* ticket, and a session enters step 5 through such a photo only.          *)
C7_AmountStepOnlyWithoutNumber ==
    [][\A u \in Users :
        /\ (/\ Handles(u, "photo")
            /\ (At(u, "deriv_vip", 4) \/ At(u, "deriv_vip", 31))
            /\ FirstNumber(caption_of(last_update')) < 0)
           => SessionAt(u, 5, pending_verifications[u].data) /\ tickets' = tickets
        /\ (/\ ~At(u, "deriv_vip", 5)
            /\ u \in DOMAIN pending_verifications'
            /\ pending_verifications'[u].flow = "deriv_vip"
            /\ pending_verifications'[u].step = 5)
           => /\ Handles(u, "photo")
              /\ (At(u, "deriv_vip", 4) \/ At(u, "deriv_vip", 31))
              /\ FirstNumber(caption_of(last_update')) < 0]_vars

(* A photo without caption has moved the session to step 5.                *)
C7_Witness ==
    /\ last_update = Update("photo", 101, FALSE, "")
    /\ At(101, "deriv_vip", 5)
    /\ "cr" \in DOMAIN pending_verifications[101].data
    /\ tickets = {}

(* C8: at the amount step (deriv step 5, mentorship step 3) an amount      *)
(* equal to the minimum deposit removes the session and inserts one        *)
(* ticket of the user; an amount one cent below removes the session and    *)
(* inserts none.                                                           *)
C8_MinimumIsInclusive ==
    [][\A u \in Users :
        (Handles(u, "text") /\ (At(u, "deriv_vip", 5) \/ At(u, "mentorship", 3)))
        => LET amount == FirstNumber(strip(last_update'.text))
           IN  /\ amount = REQUIRED_DERIV_DEPOSIT * CentsPerUnit
                      => /\ SessionGone(u)
                         /\ \E t \in tickets' :
                               /\ t \notin tickets
                               /\ tickets' = tickets \cup {t}
                               /\ t.user_id = u
               /\ amount = REQUIRED_DERIV_DEPOSIT * CentsPerUnit - 1
                      => SessionGone(u) /\ tickets' = tickets]_vars

(* The amount 50.00 at step 5 met a ticket id of the same second: the      *)
(* insert raised, no ticket was added and the session is still there.      *)
C8_Witness ==
    /\ last_update = Update("text", 101, TRUE, "50.00")
    /\ error = "DuplicateKeyError"
    /\ At(101, "deriv_vip", 5)

(* Text that the step of the user's session does not recognise.            *)
Unrecognised(u, message_text) ==
    LET flow == pending_verifications[u].flow
        step == pending_verifications[u].step
        text == strip(message_text)
        yes_no == text \in YesAnswers \cup NoAnswers
    IN  IF flow = "deriv_vip"
        THEN CASE step \in {1, 30} -> ~yes_no
               [] step = 2 -> ~strptime(text).ok
               [] step = 3 -> ~WellFormedCode(upper(text))
               [] step = 5 -> FirstNumber(text) < 0
               [] OTHER -> TRUE
        ELSE CASE step = 1 -> lower(text) # "done" /\ ~WellFormedCode(upper(text))
               [] step = 3 -> FirstNumber(text) < 0
               [] OTHER -> TRUE

(* C9: at every step of both flows, handling a text the step does not      *)
(* recognise leaves the session store and the ticket store unchanged.      *)
C9_UnrecognisedTextKeepsSession ==
    [][\A u \in Users :
        (/\ Handles(u, "text")
         /\ HasSession(u)
         /\ Unrecognised(u, last_update'.text))
        => UNCHANGED <<pending_verifications, tickets>>]_vars

(* A text at mentorship step 2 has removed the session.                    *)
C9_Witness ==
    /\ last_update.kind = "text"
    /\ replies = <<"did_not_understand_restart">>
    /\ ~HasSession(101)

CanonicalCodes == {"CR5499637", "CR12345", "CR12"}

CodeVariants(c) ==
    {c, lower(c), " " \o lower(c) \o " ", "\t" \o c \o "\n",
     "c" \o SubSeq(c, 2, Len(c)), "  C" \o lower(SubSeq(c, 2, Len(c)))}

(* C10: at step 3 of the Broker-VIP flow every letter-case variant of a    *)
(* code, with or without surrounding whitespace, has the outcome of the    *)
(* code itself: the same step, the same recorded upper-case code, the same *)
(* reply.                                                                  *)
C10_CodeIsNormalised ==
    \A u \in Users :
        At(u, "deriv_vip", 3)
        => \A c \in CanonicalCodes : \A v \in CodeVariants(c) :
              LET of_code == handle_message(Update("text", u, TRUE, c))
                  of_variant == handle_message(Update("text", u, TRUE, v))
              IN  /\ of_variant = of_code
                  /\ WellFormedCode(c)
                         => of_variant.pending_verifications[u].data["cr"] = c

C10_Witness ==
    /\ last_update = Update("text", 101, TRUE, " cr5499637 ")
    /\ At(101, "deriv_vip", 4)
    /\ pending_verifications[101].data["cr"] = "CR5499637"

(* C11: in the mentorship flow, done (any letter case) or a well-formed    *)
(* code at step 1 moves the session to step 2, and a photo at step 2 whose *)
(* caption's first number is at least 50 inserts one "Free Mentorship"     *)
(* ticket of the user and removes the session.                             *)
C11_MentorshipSucceeds ==
    [][\A u \in Users :
        /\ (/\ Handles(u, "text")
            /\ At(u, "mentorship", 1)
            /\ \/ lower(strip(last_update'.text)) = "done"
               \/ WellFormedCode(upper(strip(last_update'.text))))
           => /\ u \in DOMAIN pending_verifications'
              /\ pending_verifications'[u].flow = "mentorship"
              /\ pending_verifications'[u].step = 2
              /\ tickets' = tickets
        /\ (/\ Handles(u, "photo")
            /\ At(u, "mentorship", 2)
            /\ FirstNumber(caption_of(last_update')) >= MENTORSHIP_DEPOSIT * CentsPerUnit)
           => /\ SessionGone(u)
              /\ \E t \in tickets' :
                    /\ t \notin tickets
                    /\ tickets' = tickets \cup {t}
                    /\ t.user_id = u
                    /\ t.category = "Free Mentorship"]_vars

(* The scenario of C11 with no other ticket of the same second: done, then *)
(* a photo with a caption of at least 50, has ended in the ticket.         *)
C11_ScenarioTicket ==
    /\ last_update = Update("photo", 101, TRUE, "deposit 60")
    /\ ~HasSession(101)
    /\ \E t \in tickets :
          /\ t.category = "Free Mentorship"
          /\ t.user_id = 101
          /\ t.description = "Free Mentorship verification completed. Deposit: $60.00"

(* C12: in the mentorship flow an amount below 50 removes the session and  *)
(* creates no ticket, both as the first number of the photo caption at     *)
(* step 2 and as the number of the text at step 3.                         *)
C12_MentorshipLowAmountAborts ==
    [][\A u \in Users :
        /\ (/\ Handles(u, "photo")
            /\ At(u, "mentorship", 2)
            /\ FirstNumber(caption_of(last_update')) >= 0
            /\ FirstNumber(caption_of(last_update')) < MENTORSHIP_DEPOSIT * CentsPerUnit)
           => SessionGone(u) /\ tickets' = tickets
        /\ (/\ Handles(u, "text")
            /\ At(u, "mentorship", 3)
            /\ FirstNumber(strip(last_update'.text)) >= 0
            /\ FirstNumber(strip(last_update'.text)) < MENTORSHIP_DEPOSIT * CentsPerUnit)
           => SessionGone(u) /\ tickets' = tickets]_vars

(* The photo with caption "49.99" at mentorship step 2 has left the        *)
(* session at step 3.                                                      *)
C12_Witness ==
    /\ last_update = Update("photo", 101, TRUE, "49.99")
    /\ At(101, "mentorship", 3)
    /\ replies = <<"screenshot_received", "send_deposit_amount_80">>

(* C13: at mentorship step 1 every well-formed code, in the whitelist or   *)
(* not, is recorded and moves the session to step 2 with no ticket         *)
(* created, and a mentorship session is never at a step other than 1, 2    *)
(* or 3 (no partner confirmation).                                         *)
C13_MentorshipIgnoresWhitelist ==
    [][\A u \in Users :
        /\ (/\ Handles(u, "text")
            /\ At(u, "mentorship", 1)
            /\ WellFormedCode(upper(strip(last_update'.text))))
           => /\ SessionAt(u, 2, Put(pending_verifications[u].data, "cr",
                                     upper(strip(last_update'.text))))
              /\ tickets' = tickets
        /\ (u \in DOMAIN pending_verifications'
            /\ pending_verifications'[u].flow = "mentorship")
           => pending_verifications'[u].step \in {1, 2, 3}]_vars

(* A code outside the whitelist has been recorded at mentorship step 1.    *)
C13_Witness ==
    /\ last_update = Update("text", 101, TRUE, " cr12345 ")
    /\ At(101, "mentorship", 2)
    /\ pending_verifications[101].data["cr"] = "CR12345"
    /\ "CR12345" \notin VIP_CR_WHITELIST

(* The session of u after the step stands at `step` of `flow` and did not  *)
(* before it.                                                              *)
Enters(u, flow, step) ==
    /\ u \in DOMAIN pending_verifications'
    /\ pending_verifications'[u].flow = flow
    /\ pending_verifications'[u].step = step
    /\ ~At(u, flow, step)

TextAt(u, flow, step) == Handles(u, "text") /\ At(u, flow, step)

PhotoAt(u, flow, step) == Handles(u, "photo") /\ At(u, flow, step)

(* The date of the handled text is at least one day before now.            *)
OldEnoughDate(text) ==
    /\ strptime(text).ok
    /\ timestamp(strptime(text)) + SecondsPerDay <= now

(* C14: a "Deriv VIP" ticket is inserted only by a photo at step 4 or 31   *)
(* or a text at step 5 with an amount of at least 50; step 5 is entered    *)
(* only by a photo at step 4 or 31, step 4 only by a whitelisted           *)
(* well-formed code at step 3, step 31 only by yes at step 30, step 30     *)
(* only by a well-formed code outside the whitelist at step 3, step 3 only *)
(* by a date at least one day old at step 2, step 2 only by yes at step 1. *)
(* A "Free Mentorship" ticket is inserted only by a photo at mentorship    *)
(* step 2 or a text at step 3 (entered only by a photo at step 2) with an  *)
(* amount of at least 50.                                                  *)
C14_TicketOnlyAfterAllSteps ==
    [][\A u \in Users :
        LET text == strip(last_update'.text)
            code == upper(text)
            caption == caption_of(last_update')
            minimum == REQUIRED_DERIV_DEPOSIT * CentsPerUnit
        IN
        /\ \A t \in tickets' \ tickets :
              /\ (t.category = "Deriv VIP" /\ t.user_id = u)
                 => \/ /\ PhotoAt(u, "deriv_vip", 4) \/ PhotoAt(u, "deriv_vip", 31)
                       /\ FirstNumber(caption) >= minimum
                    \/ /\ TextAt(u, "deriv_vip", 5)
                       /\ FirstNumber(text) >= minimum
              /\ (t.category = "Free Mentorship" /\ t.user_id = u)
                 => \/ /\ PhotoAt(u, "mentorship", 2)
                       /\ FirstNumber(caption) >= MENTORSHIP_DEPOSIT * CentsPerUnit
                    \/ /\ TextAt(u, "mentorship", 3)
                       /\ FirstNumber(text) >= MENTORSHIP_DEPOSIT * CentsPerUnit
        /\ Enters(u, "deriv_vip", 5)
              => PhotoAt(u, "deriv_vip", 4) \/ PhotoAt(u, "deriv_vip", 31)
        /\ Enters(u, "deriv_vip", 4)
              => /\ TextAt(u, "deriv_vip", 3)
                 /\ WellFormedCode(code) /\ code \in VIP_CR_WHITELIST
        /\ Enters(u, "deriv_vip", 31)
              => TextAt(u, "deriv_vip", 30) /\ text \in YesAnswers
        /\ Enters(u, "deriv_vip", 30)
              => /\ TextAt(u, "deriv_vip", 3)
                 /\ WellFormedCode(code) /\ code \notin VIP_CR_WHITELIST
        /\ Enters(u, "deriv_vip", 3)
              => TextAt(u, "deriv_vip", 2) /\ OldEnoughDate(text)
        /\ Enters(u, "deriv_vip", 2)
              => TextAt(u, "deriv_vip", 1) /\ text \in YesAnswers
        /\ Enters(u, "mentorship", 3) => PhotoAt(u, "mentorship", 2)
        /\ \A t \in tickets' \ tickets : t.user_id \in Users]_vars

(* A "Deriv VIP" ticket has been inserted at the end of the longest path:  *)
(* code outside the whitelist, partner confirmation, photo without         *)
(* caption, amount as text.                                                *)
C14_Witness ==
    /\ last_update = Update("text", 101, TRUE, "50.00")
    /\ ~HasSession(101)
    /\ \E t \in tickets :
          /\ t.category = "Deriv VIP"
          /\ t.user_id = 101
          /\ t.description = "Deriv VIP verification completed.\nCR: CR12345\nDeposit: $50.00"

VerificationCategories == {"Deriv VIP", "Free Mentorship"}

(* C15: a step that inserts a "Deriv VIP" or "Free Mentorship" ticket of a *)
(* user inserts that one ticket only and removes the user's session in the *)
(* same step; a text of a user without session leaves the session store    *)
(* unchanged and inserts no ticket of these categories.                    *)
C15_SuccessIsOneTicket ==
    [][\A u \in Users :
        /\ \A t \in tickets' \ tickets :
              (t.user_id = u /\ t.category \in VerificationCategories)
              => /\ tickets' = tickets \cup {t}
                 /\ HasSession(u)
                 /\ SessionGone(u)
                 /\ u \notin DOMAIN pending_verifications'
        /\ (Handles(u, "text") /\ ~HasSession(u))
           => /\ UNCHANGED pending_verifications
              /\ \A t \in tickets' \ tickets : t.category \notin VerificationCategories]_vars

(* After the mentorship ticket was inserted, a further amount text of the  *)
(* user went to the knowledge base, not to the flow.                       *)
C15_Witness ==
    /\ last_update = Update("text", 101, TRUE, "50.00")
    /\ replies = <<"knowledge_base_answer">>
    /\ ~HasSession(101)
    /\ \E t \in tickets : t.category = "Free Mentorship" /\ t.user_id = 101

(* The step handles an event of u that materializes a verification        *)
(* success: a photo at a proof step with a caption amount of at least the  *)
(* minimum, or such an amount as text at the amount step.                  *)
Materializes(u) ==
    LET caption_amount == FirstNumber(caption_of(last_update'))
        text_amount == FirstNumber(strip(last_update'.text))
    IN  \/ /\ PhotoAt(u, "deriv_vip", 4) \/ PhotoAt(u, "deriv_vip", 31)
           /\ caption_amount >= REQUIRED_DERIV_DEPOSIT * CentsPerUnit
        \/ /\ PhotoAt(u, "mentorship", 2)
           /\ caption_amount >= MENTORSHIP_DEPOSIT * CentsPerUnit
        \/ /\ TextAt(u, "deriv_vip", 5)
           /\ text_amount >= REQUIRED_DERIV_DEPOSIT * CentsPerUnit
        \/ /\ TextAt(u, "mentorship", 3)
           /\ text_amount >= MENTORSHIP_DEPOSIT * CentsPerUnit

(* The insert of a ticket made now fails: its id is in the store.          *)
InsertFails == \E t \in tickets : t.ticket_id = ticket_id(now)

(* Handling the last update once more either fails at the insert again or  *)
(* inserts the ticket and removes the session.                             *)
RetryCreatesTicket ==
    LET u == last_update.user
        o == IF last_update.kind = "photo" THEN handle_photo(last_update)
             ELSE handle_message(last_update)
    IN  IF InsertFails
        THEN /\ o.error = "DuplicateKeyError"
             /\ o.pending_verifications = pending_verifications
        ELSE /\ o.error = ""
             /\ o.pending_verifications = Del(pending_verifications, u)
             /\ \E t \in o.tickets :
                   t \notin tickets /\ o.tickets = tickets \cup {t} /\ t.user_id = u

(* The last update was an event of a user with a session whose handling    *)
(* ended in the failed insert.                                             *)
InsertFailed ==
    /\ error = "DuplicateKeyError"
    /\ last_update.kind \in {"text", "photo"}
    /\ HasSession(last_update.user)

(* C18: when the insert fails while a verification success is              *)
(* materialized, the session store and the ticket store are unchanged, and *)
(* the same input handled again, at once or a second later, attempts the   *)
(* insert again from the same step.                                        *)
C18_FailedInsertKeepsSession ==
    [][/\ \A u \in Users :
            (Materializes(u) /\ InsertFails)
            => /\ UNCHANGED <<pending_verifications, tickets>>
               /\ error' = "DuplicateKeyError"
       /\ InsertFailed => RetryCreatesTicket]_vars

(* The photo of the scenario met a ticket id of its second: the session    *)
(* still stands at step 4 with its fields.                                 *)
C18_Witness ==
    /\ last_update = Update("photo", 101, TRUE, "deposit 60")
    /\ error = "DuplicateKeyError"
    /\ At(101, "deriv_vip", 4)
    /\ pending_verifications[101].data =
           [cr |-> "CR5499637", created_date |-> "2024-03-01T00:00:00"]
    /\ now = StartTime + 1

SuccessReplies == {"deriv_all_set", "mentorship_enrolled"}

(* C19: when the insert fails while a verification success is              *)
(* materialized, the handler ends normally, its last reply to the user is  *)
(* the retry-later message, and it sends no success confirmation.          *)
C19_FailedInsertIsReported ==
    [][\A u \in Users :
        (Materializes(u) /\ InsertFails)
        => /\ error' = ""
           /\ replies' # <<>>
           /\ replies'[Len(replies')] = "try_again_later"
           /\ \A i \in DOMAIN replies' : replies'[i] \notin SuccessReplies]_vars

(* The amount 50.00 at mentorship step 3 met a ticket id of its second:    *)
(* the handler ended in the exception without any reply.                   *)
C19_Witness ==
    /\ last_update = Update("text", 101, TRUE, "50.00")
    /\ At(101, "mentorship", 3)
    /\ error = "DuplicateKeyError"
    /\ replies = <<>>

CompanyCategories == {"Deriv VIP", "Currencies VIP", "Free Mentorship"}

(* The send_message calls of the step for ticket `id` to chat `chat`.      *)
SendsTo(chat, id) ==
    {i \in DOMAIN sends' : sends'[i].chat_id = chat /\ sends'[i].ticket_id = id}

(* C16: a ticket of the categories Deriv VIP, Currencies VIP or Free       *)
(* Mentorship is inserted with status open, and the step that inserts it   *)
(* sends it exactly once to every active group.                            *)
C16_CompanyTicketIsForwarded ==
    [][\A t \in tickets' \ tickets :
        t.category \in CompanyCategories
        => /\ t.status = "open"
           /\ \A g \in get_support_groups :
                 Cardinality(SendsTo(g.group_id, t.ticket_id)) = 1]_vars

(* A Currencies VIP ticket was inserted while a group was connected, and   *)
(* nothing was sent.                                                       *)
C16_Witness ==
    /\ last_update = Update("callback", 101, TRUE, "vip_currencies")
    /\ \E t \in tickets : t.category = "Currencies VIP" /\ t.created_at = now
    /\ get_support_groups # {}
    /\ error = ""
    /\ sends = <<>>

(* C17: when a send to a group fails, the ticket of the notification is in *)
(* the store, the handler ends normally, and every active group to which   *)
(* sending works gets the notification exactly once.                       *)
C17_SendFailureIsIsolated ==
    [][\A i \in DOMAIN sends' :
        ~sends'[i].delivered
        => /\ error' = ""
           /\ \E t \in tickets' : t.ticket_id = sends'[i].ticket_id
           /\ \A g \in get_support_groups :
                 g.group_id \notin last_update'.unreachable
                 => /\ Cardinality(SendsTo(g.group_id, sends'[i].ticket_id)) = 1
                    /\ \A j \in SendsTo(g.group_id, sends'[i].ticket_id) :
                          sends'[j].delivered]_vars

(* The first send of the loop failed and the second group got the ticket.  *)
C17_Witness ==
    /\ Len(sends) = 2
    /\ sends[1].chat_id = -1002 /\ ~sends[1].delivered
    /\ sends[2].chat_id = -1001 /\ sends[2].delivered
    /\ \E t \in tickets : t.ticket_id = sends[1].ticket_id /\ t.description = "my issue"
    /\ error = ""

(* The step handles an event of u that builds a ticket and inserts it.     *)
CreatesTicket(u) ==
    \/ Materializes(u)
    \/ Handles(u, "callback") /\ last_update'.text = "vip_currencies"
    \/ /\ Handles(u, "text")
       /\ ~HasSession(u)
       /\ u \in DOMAIN pending_tickets
       /\ strip(last_update'.text) # ""

(* C20: a ticket built in a clock second in which another ticket was       *)
(* created is inserted with a ticket_id that no stored ticket has.         *)
C20_SameSecondIdsDiffer ==
    [][\A u \in Users :
        (CreatesTicket(u) /\ \E t \in tickets : t.created_at = now)
        => \E t2 \in tickets' \ tickets :
              /\ t2.user_id = u
              /\ \A t \in tickets : t.ticket_id # t2.ticket_id]_vars

(* The ticket of user 101's form got the id of user 102's ticket of the    *)
(* same second and was rejected.                                           *)
C20_Witness ==
    /\ last_update.kind = "text"
    /\ last_update.user = 101
    /\ error = "DuplicateKeyError"
    /\ \E t \in tickets : t.user_id = 102 /\ t.created_at = now
    /\ 101 \in DOMAIN pending_tickets

UniqueIds(store) == \A t1, t2 \in store : t1.ticket_id = t2.ticket_id => t1 = t2

(* C21: no two stored tickets have the same ticket_id, and that stays so   *)
(* whichever ticket-creating event is handled next: the store it leaves    *)
(* has unique ids, and when the id built now is already stored the store   *)
(* is left as it was.                                                      *)
C21_TicketIdsAreUnique ==
    /\ UniqueIds(tickets)
    /\ \A update \in GroupTextUpdates \cup GroupCallbacks :
          LET o == IF update.kind = "text" THEN handle_message(update)
                   ELSE button_callback(update)
          IN  /\ UniqueIds(o.tickets)
              /\ InsertFails => o.tickets = tickets
              /\ o.error = "DuplicateKeyError" => o.tickets = tickets

(* The Currencies VIP request of user 101 met the id of user 102's ticket  *)
(* of the same second: the store still holds that one ticket only.         *)
C21_Witness ==
    /\ last_update = Update("callback", 101, TRUE, "vip_currencies")
    /\ error = "DuplicateKeyError"
    /\ \E t \in tickets :
          tickets = {t} /\ t.user_id = 102 /\ t.ticket_id = ticket_id(now)

SameSession(u) ==
    /\ (u \in DOMAIN pending_verifications') = (u \in DOMAIN pending_verifications)
    /\ HasSession(u) => pending_verifications'[u] = pending_verifications[u]

(* C23: a step that is not the handling of an event of user b (an event of *)
(* another user, or time passing) neither creates, changes nor removes the *)
(* session of b.                                                           *)
C23_SessionsAreIndependent ==
    [][\A b \in Users : (now' # now \/ last_update'.user # b) => SameSession(b)]_vars

(* User 101 lost the own session to an unrecognised text, a second later   *)
(* than the start, while user 102 still waits at the creation-date step.   *)
C23_Witness ==
    /\ At(102, "deriv_vip", 2)
    /\ last_update.user = 101
    /\ last_update.kind = "text"
    /\ ~HasSession(101)
    /\ replies = <<"did_not_understand_restart">>
    /\ now = StartTime + 1

GenericReplies == {"knowledge_base_answer", "ticket_created"}

(* C24: a text of a user with an open session is handled by the flow only: *)
(* the user's pending generic-ticket entry stays as it was, any ticket the *)
(* step inserts is a verification ticket, and neither the generic ticket   *)
(* confirmation nor a knowledge-base answer is sent; a photo of such a     *)
(* user is acknowledged by the photo step and leaves the entry alone too.  *)
C24_SessionTakesTheEvent ==
    [][\A u \in Users :
        /\ (Handles(u, "text") /\ HasSession(u))
           => /\ pending_tickets' = pending_tickets
              /\ \A t \in tickets' \ tickets :
                    t.category \in VerificationCategories /\ t.priority = "high"
              /\ \A i \in DOMAIN replies' : replies'[i] \notin GenericReplies
        /\ (Handles(u, "photo") /\ HasSession(u))
           => /\ pending_tickets' = pending_tickets
              /\ replies' # <<>>
              /\ replies'[1] = "screenshot_received"]_vars

(* User 101 chose a category of the generic form, entered the Deriv flow   *)
(* and answered "Yes": the flow moved on and the generic entry still waits *)
(* for its description.                                                    *)
C24_Witness ==
    /\ last_update = Update("text", 101, TRUE, "Yes")
    /\ At(101, "deriv_vip", 2)
    /\ 101 \in DOMAIN pending_tickets
    /\ pending_tickets[101].step = "description"
    /\ tickets = {}

StaysOpen(u) == HasSession(u) /\ u \in DOMAIN pending_verifications'

(* C25: a text or a photo of a user whose session stays open leaves the    *)
(* flow of the session as it was.                                          *)
C25_FlowIsFixed ==
    [][\A u \in Users :
        ((Handles(u, "text") \/ Handles(u, "photo")) /\ StaysOpen(u))
        => pending_verifications'[u].flow = pending_verifications[u].flow]_vars

(* A mentorship session took a code and then a photo without amount and    *)
(* is a mentorship session still, now at the amount step.                  *)
C25_Witness ==
    /\ last_update = Update("photo", 101, TRUE, "my balance")
    /\ At(101, "mentorship", 3)
    /\ "cr" \in DOMAIN pending_verifications[101].data

FieldsKept(u) ==
    \A k \in DOMAIN pending_verifications[u].data :
        /\ k \in DOMAIN pending_verifications'[u].data
        /\ pending_verifications'[u].data[k] = pending_verifications[u].data[k]

(* The step replaces whatever session u had by a new one: u pressed the    *)
(* button of a flow entry.                                                 *)
CreatesSession(u) ==
    /\ Handles(u, "callback")
    /\ last_update'.text \in {"vip_deriv", "vip_mentorship"}

TicketIdentity == {"ticket_id", "user_id", "category", "description"}

(* What staff operations write.                                            *)
TicketMetadata ==
    {"status", "assigned_to", "assigned_at", "closed_by", "closed_at", "updated_at"}

(* C27: every step keeps every stored ticket: the store after the step     *)
(* holds a ticket with the same ticket_id, user_id, category and           *)
(* description, and it differs from the one before in nothing but status   *)
(* and the assignment and closing metadata.                                *)
C27_TicketsAreNeverDeleted ==
    [][\A t \in tickets :
        \E kept \in tickets' :
            /\ \A k \in TicketIdentity : kept[k] = t[k]
            /\ DOMAIN t \subseteq DOMAIN kept
            /\ \A k \in DOMAIN t \ TicketMetadata : kept[k] = t[k]]_vars

(* The Currencies VIP ticket of user 102 was taken and then closed by the  *)
(* staff member, a second after it was created, and is still stored.       *)
C27_Witness ==
    /\ last_update.user = 201
    /\ \E t \in tickets :
          /\ t.user_id = 102
          /\ t.category = "Currencies VIP"
          /\ t.status = "closed"
          /\ "assigned_to" \in DOMAIN t
          /\ t.closed_by = 201
          /\ t.created_at = StartTime
          /\ t.closed_at = StartTime + 1

(* C28: every open session (of user 101, who walks the flows) is           *)
(* eventually removed, by the ticket or by the abort, when at each step    *)
(* the user eventually sends an input the step accepts: no step is a dead  *)
(* end.                                                                    *)
C28_SessionsTerminate == HasSession(101) ~> ~HasSession(101)

(* A Deriv session went through the partner confirmation and the photo     *)
(* step to the amount step and ended in the ticket.                        *)
C28_Witness ==
    /\ last_update = Update("text", 101, TRUE, "50.00")
    /\ ~HasSession(101)
    /\ replies # <<>>
    /\ replies[Len(replies)] = "deriv_all_set"
    /\ \E t \in tickets :
          t.description = deriv_description("CR12345", float("50.00"))

WaitsForPhoto(u) ==
    At(u, "deriv_vip", 4) \/ At(u, "deriv_vip", 31) \/ At(u, "mentorship", 2)

(* C29: a text of a user whose session waits for a photo (Deriv steps 4    *)
(* and 31, mentorship step 2) leaves the session in the store with the     *)
(* same step and fields and creates no ticket.                             *)
C29_TextAtPhotoStepKeepsSession ==
    [][\A u \in Users :
        (Handles(u, "text") /\ WaitsForPhoto(u))
        => /\ pending_verifications' = pending_verifications
           /\ tickets' = tickets]_vars

(* The part of C29 that holds: the Deriv steps 4 and 31.                   *)
C29_DerivPhotoStepsKeepSession ==
    [][\A u \in Users :
        (Handles(u, "text") /\ (At(u, "deriv_vip", 4) \/ At(u, "deriv_vip", 31)))
        => /\ pending_verifications' = pending_verifications
           /\ tickets' = tickets]_vars

(* The text "50.00" reached the mentorship session that waited for the     *)
(* deposit photo: the session is gone and no ticket was created.           *)
C29_Witness ==
    /\ last_update = Update("text", 101, TRUE, "50.00")
    /\ ~HasSession(101)
    /\ replies = <<"did_not_understand_restart">>
    /\ tickets = {}

(* C30: a photo of a user whose session is at a step that waits for no    *)
(* photo, or who has no session, leaves the session store and the ticket   *)
(* store as they were.                                                     *)
C30_StrayPhotoChangesNothing ==
    [][\A u \in Users :
        (Handles(u, "photo") /\ ~WaitsForPhoto(u))
        => /\ pending_verifications' = pending_verifications
           /\ tickets' = tickets]_vars

(* A photo with an amount in its caption came while the Deriv session      *)
(* waited for the code: it was acknowledged and the session still waits    *)
(* there, with no ticket.                                                  *)
C30_Witness ==
    /\ last_update = Update("photo", 101, TRUE, "deposit 60")
    /\ At(101, "deriv_vip", 3)
    /\ replies = <<"screenshot_received">>
    /\ tickets = {}

DerivSteps == {1, 2, 3, 4, 5, 30, 31}

MentorshipSteps == {1, 2, 3}

(* C31: every stored session is a Deriv session at one of its seven steps  *)
(* or a mentorship session at one of its three; a Deriv session at step 4, *)
(* 5, 30 or 31 has the code and the creation date recorded; and no Deriv   *)
(* VIP ticket description carries the placeholder N/A.                     *)
C31_SessionsAreWellFormed ==
    /\ \A u \in DOMAIN pending_verifications :
          LET session == pending_verifications[u]
          IN  /\ \/ session.flow = "deriv_vip" /\ session.step \in DerivSteps
                 \/ session.flow = "mentorship" /\ session.step \in MentorshipSteps
              /\ (session.flow = "deriv_vip" /\ session.step \in {4, 5, 30, 31})
                 => {"cr", "created_date"} \subseteq DOMAIN session.data
    /\ \A t \in tickets :
          t.category = "Deriv VIP" => ~Contains(t.description, "N/A")

(* The Deriv session waits for the partner's photo with the code and the   *)
(* creation date recorded.                                                 *)
C31_Witness ==
    /\ At(101, "deriv_vip", 31)
    /\ pending_verifications[101].data["cr"] = "CR12345"
    /\ pending_verifications[101].data["created_date"] = "2024-02-29T00:00:00"
    /\ last_update = Update("text", 101, TRUE, "Yes")

SelectedFlow(data) == IF data = "vip_deriv" THEN "deriv_vip" ELSE "mentorship"

(* C32: pressing the Deriv VIP or the Free Mentorship entry button leaves   *)
(* the user with a session of that flow at step 1 with no field, whatever  *)
(* session the user had before, changes no other session and creates no    *)
(* ticket.                                                                 *)
C32_EntryStartsAfresh ==
    [][\A u \in Users :
        (Handles(u, "callback") /\ last_update'.text \in {"vip_deriv", "vip_mentorship"})
        => /\ pending_verifications' =
                 Put(pending_verifications, u,
                     [flow |-> SelectedFlow(last_update'.text), step |-> 1,
                      data |-> EmptyDict])
           /\ tickets' = tickets]_vars

(* The mentorship button was pressed last: the session is a mentorship     *)
(* session at step 1 with no field.                                        *)
C32_Witness ==
    /\ last_update = Update("callback", 101, TRUE, "vip_mentorship")
    /\ At(101, "mentorship", 1)
    /\ pending_verifications[101].data = EmptyDict
    /\ replies = <<"mentorship_intro">>
    /\ tickets = {}

(* The step is handler i of user u calling insert_one.                     *)
InsertCalled(i, u) ==
    /\ i \in 1..Len(in_flight)
    /\ in_flight[i].pc = "insert"
    /\ in_flight[i].update.user = u
    /\ \/ Len(in_flight') < Len(in_flight)
       \/ in_flight'[i].pc = "delete"

(* Another handler of u has inserted a ticket and not yet deleted the      *)
(* session.                                                                *)
InsertedByAnother(i, u) ==
    \E j \in 1..Len(in_flight) :
        j # i /\ in_flight[j].update.user = u /\ in_flight[j].pc = "delete"

ReachesGenericLogic ==
    last_update'.chat_type \notin {"group", "supergroup"} \/ last_update'.addressed

(* The step handles a non-empty text of user u, who has no session.        *)
GenericText(u) ==
    /\ Handles(u, "text")
    /\ ~HasSession(u)
    /\ strip(last_update'.text) # ""
    /\ ReachesGenericLogic

(* C34: the non-empty text of a user without a session who chose a generic *)
(* category inserts exactly one ticket, with the category chosen, the text *)
(* as description and status open, and removes the pending entry; when the *)
(* insert fails the entry is kept and the ticket store is unchanged; the   *)
(* text of a user without a pending entry inserts no ticket.               *)
C34_GenericTicketOnce ==
    [][\A u \in Users :
        GenericText(u) =>
            IF u \notin DOMAIN pending_tickets THEN tickets' = tickets
            ELSE IF InsertFails
            THEN /\ tickets' = tickets
                 /\ pending_tickets' = pending_tickets
                 /\ error' = "DuplicateKeyError"
            ELSE /\ pending_tickets' = Del(pending_tickets, u)
                 /\ Cardinality(tickets' \ tickets) = 1
                 /\ tickets \subseteq tickets'
                 /\ \A t \in tickets' \ tickets :
                       /\ t.user_id = u
                       /\ t.category = pending_tickets[u].category
                       /\ t.description = strip(last_update'.text)
                       /\ t.status = "open"]_vars

(* The text of user 101 has become a ticket of the category chosen, and    *)
(* the pending entry is gone.                                              *)
C34_Witness ==
    /\ last_update.kind = "text"
    /\ error = ""
    /\ 101 \notin DOMAIN pending_tickets
    /\ \E t \in tickets :
          /\ t.user_id = 101
          /\ t.category = "Mentorship"
          /\ t.description = "my issue"
          /\ t.status = "open"

(* C35: every notification a handler sends to a group names a ticket that  *)
(* the same handler has inserted, and a handler whose insert fails sends   *)
(* no notification, whichever path builds the ticket.                     *)
C35_NotifiedAfterPersisted ==
    [][now' = now =>
          /\ \A i \in DOMAIN sends' :
                \E t \in tickets' \ tickets : t.ticket_id = sends'[i].ticket_id
          /\ error' = "DuplicateKeyError" => sends' = <<>> /\ tickets' = tickets]_vars

(* A connected group has been sent the ticket that the text of user 101    *)
(* became.                                                                 *)
C35_Witness ==
    /\ last_update.kind = "text"
    /\ \E i \in DOMAIN sends : \E t \in tickets :
          /\ sends[i].chat_id = -1001
          /\ sends[i].delivered
          /\ sends[i].ticket_id = t.ticket_id
          /\ t.description = "my issue"

Statuses == <<"open", "assigned", "closed">>

(* The place of a status in the order open, assigned, closed               *)
StatusRank(status) == CHOOSE i \in DOMAIN Statuses : Statuses[i] = status

(* The step handles the Take button that user u pressed under ticket t.    *)
Takes(u, t) ==
    /\ Handles(u, "callback")
    /\ last_update'.text = "take_" \o t.ticket_id

(* C36: the status of every stored ticket is open, assigned or closed, and *)
(* no step moves it backwards in that order; Take on an open ticket makes  *)
(* it assigned to the taker, Take on an assigned or closed ticket leaves   *)
(* the ticket store as it was; a closed ticket stays closed.               *)
C36_StatusMovesForward ==
    [][/\ \A t \in tickets' : t.status \in {"open", "assigned", "closed"}
       /\ \A t \in tickets :
             \E kept \in tickets' :
                 /\ kept.ticket_id = t.ticket_id
                 /\ StatusRank(kept.status) >= StatusRank(t.status)
                 /\ t.status = "closed" => kept.status = "closed"
       /\ \A u \in Staff : \A t \in tickets :
             Takes(u, t) =>
                 IF t.status = "open"
                 THEN tickets' =
                          (tickets \ {t})
                              \cup {set_fields(t, [status |-> "assigned", assigned_to |-> u,
                                                   assigned_at |-> now, updated_at |-> now])}
                 ELSE tickets' = tickets]_vars

(* The staff member pressed Take under a ticket that was already closed    *)
(* and was told that it is no longer open.                                 *)
C36_Witness ==
    /\ last_update.user = 201
    /\ StartsWith(last_update.text, "take_")
    /\ replies = <<"ticket_no_longer_open">>
    /\ \E t \in tickets :
          /\ last_update.text = "take_" \o t.ticket_id
          /\ t.status = "closed"

(* The step tells taker u that the ticket was assigned to them.            *)
ToldAssigned(u) ==
    /\ last_update'.user = u
    /\ IsTake(last_update')
    /\ replies' # replies
    /\ Len(replies') > 0
    /\ replies'[1] = "ticket_assigned_to_you"

HandlesCommand(command) ==
    /\ now' = now
    /\ last_update'.kind = "command"
    /\ last_update'.text = command

(* The command is sent in a group by an administrator or the creator.      *)
ByGroupAdmin ==
    /\ last_update'.chat_type \in {"group", "supergroup"}
    /\ last_update'.member_status \in AdminStatuses

RecordsOf(store, chat) == {g \in store : g.group_id = chat}

(* C38: the group store holds one record per group_id at most; /connect    *)
(* adds a record, for the chat it is sent in, only when it is sent in a    *)
(* group by an administrator or the creator and the group has no record;   *)
(* any other /connect leaves the group store as it was.                    *)
C38_OneRecordPerGroup ==
    [][/\ \A g1, g2 \in groups' : g1.group_id = g2.group_id => g1 = g2
       /\ HandlesCommand("/connect") =>
             IF ByGroupAdmin /\ RecordsOf(groups, last_update'.chat_id) = {}
             THEN /\ groups \subseteq groups'
                  /\ groups' \ groups = RecordsOf(groups', last_update'.chat_id)
                  /\ Cardinality(groups' \ groups) = 1
                  /\ \A g \in groups' \ groups :
                        g.status = "active" /\ g.connected_by = last_update'.user
             ELSE groups' = groups]_vars

(* An administrator sent /connect in a group that was connected a second   *)
(* before: the answer is that it is connected already, and the store holds *)
(* the one record.                                                         *)
C38_Witness ==
    /\ last_update.kind = "command"
    /\ last_update.text = "/connect"
    /\ last_update.member_status = "administrator"
    /\ replies = <<"already_connected">>
    /\ \E g \in groups : g.group_id = last_update.chat_id /\ g.connected_at < now

(* C39: /disconnect sent in a group by an administrator leaves the store   *)
(* without a record of the group and every other record as it was; a       *)
(* ticket is sent only to groups that have a record when it is created;    *)
(* and the store a /connect leaves, less the records of the group as       *)
(* /disconnect removes them, is the store before the /connect.             *)
C39_DisconnectUndoesConnect ==
    [][/\ (HandlesCommand("/disconnect") /\ ByGroupAdmin) =>
             /\ RecordsOf(groups', last_update'.chat_id) = {}
             /\ groups' = groups \ RecordsOf(groups, last_update'.chat_id)
       /\ (now' = now /\ last_update'.kind # "command") =>
             /\ groups' = groups
             /\ \A i \in DOMAIN sends' : RecordsOf(groups, sends'[i].chat_id) # {}
       /\ (HandlesCommand("/connect") /\ groups' # groups) =>
             groups' \ RecordsOf(groups', last_update'.chat_id) = groups]_vars

(* The administrator disconnected group -1001 while group -1002 stays      *)
(* connected: the store holds the record of -1002 only.                    *)
C39_Witness ==
    /\ last_update.kind = "command"
    /\ last_update.text = "/disconnect"
    /\ replies = <<"group_disconnected">>
    /\ RecordsOf(groups, -1001) = {}
    /\ RecordsOf(groups, -1002) # {}

====
